---- MODULE Spec2Model ----
(***************************************************************************)
(* Formula evaluation engine of the spreadsheet application:               *)
(*   - FormulaParser (src/utils/FormulaParser.js): evaluate with the       *)
(*     module-level evaluationCache, replaceCellReferences with the        *)
(*     processingStack / circularReferences guard, evaluateExpression,     *)
(*     invalidateCellDependencies, clearCache;                             *)
(*   - useSpreadsheetOperations (src/hooks/useSpreadsheetOperations.js):   *)
(*     updateCellValue and recalculateDependentCells, which run against    *)
(*     the state snapshot of the render that created them and queue        *)
(*     reducer actions and a setDependencies value for the next render;    *)
(*   - SpreadsheetContext: the UPDATE_CELL / APPLY_FORMULA reducer cases   *)
(*     and the getCellValue / getCellData readers.                         *)
(*                                                                         *)
(* A JavaScript value is a record [t, n, s]: t = "num" is the number n,    *)
(* t = "str" is the string s.  A formula string is kept as the string it   *)
(* is; Tokens gives its lexical structure (the text after '=').            *)
(***************************************************************************)
EXTENDS Integers, Sequences, FiniteSets, TLC

(***************************************************************************)
(* Bounds of the model.                                                    *)
(***************************************************************************)
\* writes made to cells after the initial document
MaxWrites == 1
\* updateCellValue calls made in one behaviour
MaxUpdates == 3
\* depth of nested recalculateDependentCells calls the host call stack allows
MaxCallDepth == 3
\* cellHelpers: the largest column and row index converted, the longest
\* column label and the longest row numeral of the cell ids converted
MaxColIndex == 27
MaxRowIndex == 10
MaxLabelLen == 2
MaxRowDigits == 2
\* parseCellRange: the cap on the cells of a range (maxCells, 1000 in the
\* code), the columns A.. and the rows 1.. of the corners of the ranges parsed,
\* and the longest column label converted
MaxCells == 6
MaxRangeCol == 3
MaxRangeRow == 4
MaxLetters == 2
\* nested evaluate calls the host call stack allows when it is nearly full
MaxEvalDepth == 2
\* evaluate calls made while the Set objects are followed
MaxSetCalls == 3
\* evaluate calls counted by one parser instance (cacheHits + cacheMisses)
MaxCount == 2
\* capacity of the evaluation cache (1000 in the source, scaled down)
CacheCapacity == 2

Cells == {"A1", "A2", "A3", "B1", "C1"}

(***************************************************************************)
(* Values.                                                                 *)
(***************************************************************************)
Num(n) == [t |-> "num", n |-> n, s |-> ""]
Str(s) == [t |-> "str", n |-> 0, s |-> s]

Blank == Str("")
ErrorMarker == Str("#ERROR!")

\* strings a user types that are numerals, and the number each denotes
NumeralStrings == {"0", "1", "2", "3", "10"}

Numeral(s) ==
  CASE s = "0" -> 0
    [] s = "1" -> 1
    [] s = "2" -> 2
    [] s = "3" -> 3
    [] s = "10" -> 10

\* the formula strings of the model: every one starts with '='
Formulas ==
  {"=", "=A1", "=B1", "=A1+1", "=B1*2", "=B1+C1",
   "=SUM(A1:A3)", "=SUM(A1,A2,A3)", "=AVERAGE(A1:A3)", "=AVERAGE(A1,A2,A3)",
   "=5/0", "=A1/B1", "=C1", "=1+",
   "=IF(A1>5,\"big\",\"small\")", "=AND(A1,B1)", "=OR(A1,B1)", "=NOT(A1)"}

\* String.prototype.startsWith('=')
StartsWithEquals(s) == s \in Formulas

(***************************************************************************)
(* Lexical structure of an expression: the tokens of formula.substring(1). *)
(* k = "ref": a match of /([A-Z]+[0-9]+)(?![A-Za-z0-9])/, s the cell id;   *)
(* k = "num": a numeric literal n; k = "op": an operator s;                *)
(* k = "str": a double-quoted string literal s; k = "fn": a function name  *)
(* with its opening parenthesis, s the name; k = "comma": a comma;         *)
(* k = "close": the closing parenthesis of the function call.              *)
(***************************************************************************)
RefTok(c) == [k |-> "ref", s |-> c, n |-> 0]
NumTok(n) == [k |-> "num", s |-> "", n |-> n]
OpTok(o)  == [k |-> "op", s |-> o, n |-> 0]
StrTok(s) == [k |-> "str", s |-> s, n |-> 0]
FnTok(f)  == [k |-> "fn", s |-> f, n |-> 0]
CommaTok  == [k |-> "comma", s |-> ",", n |-> 0]
CloseTok  == [k |-> "close", s |-> ")", n |-> 0]

\* a double-quoted literal whose content a replace has itself replaced by a
\* double-quoted literal: the text ""s"", no operand that mathjs can read
RequotedTok(s) == [k |-> "text", s |-> "\"\"" \o s \o "\"\"", n |-> 0]

Tokens(f) ==
  CASE f = "="      -> <<>>
    [] f = "=A1"    -> <<RefTok("A1")>>
    [] f = "=B1"    -> <<RefTok("B1")>>
    [] f = "=A1+1"  -> <<RefTok("A1"), OpTok("+"), NumTok(1)>>
    [] f = "=B1*2"  -> <<RefTok("B1"), OpTok("*"), NumTok(2)>>
    [] f = "=B1+C1" -> <<RefTok("B1"), OpTok("+"), RefTok("C1")>>
    [] f = "=5/0"   -> <<NumTok(5), OpTok("/"), NumTok(0)>>
    [] f = "=A1/B1" -> <<RefTok("A1"), OpTok("/"), RefTok("B1")>>
    [] f = "=C1"    -> <<RefTok("C1")>>
    [] f = "=1+"    -> <<NumTok(1), OpTok("+")>>
    [] f = "=IF(A1>5,\"big\",\"small\")" ->
         <<FnTok("IF"), RefTok("A1"), OpTok(">"), NumTok(5), CommaTok, StrTok("big"),
           CommaTok, StrTok("small"), CloseTok>>
    [] f = "=AND(A1,B1)" ->
         <<FnTok("AND"), RefTok("A1"), CommaTok, RefTok("B1"), CloseTok>>
    [] f = "=OR(A1,B1)" ->
         <<FnTok("OR"), RefTok("A1"), CommaTok, RefTok("B1"), CloseTok>>
    [] f = "=NOT(A1)" -> <<FnTok("NOT"), RefTok("A1"), CloseTok>>
    [] f = "=SUM(A1:A3)" ->
         <<FnTok("SUM"), RefTok("A1"), OpTok(":"), RefTok("A3"), CloseTok>>
    [] f = "=SUM(A1,A2,A3)" ->
         <<FnTok("SUM"), RefTok("A1"), CommaTok, RefTok("A2"), CommaTok, RefTok("A3"),
           CloseTok>>
    [] f = "=AVERAGE(A1:A3)" ->
         <<FnTok("AVERAGE"), RefTok("A1"), OpTok(":"), RefTok("A3"), CloseTok>>
    [] f = "=AVERAGE(A1,A2,A3)" ->
         <<FnTok("AVERAGE"), RefTok("A1"), CommaTok, RefTok("A2"), CommaTok, RefTok("A3"),
           CloseTok>>

\* the cell ids that occur as reference tokens in a formula
RefsOf(f) == {Tokens(f)[i].s : i \in {j \in 1..Len(Tokens(f)) : Tokens(f)[j].k = "ref"}}

(***************************************************************************)
(* FormulaParser.  The operators take the parser as the record `this`:     *)
(* the instance fields, the module-level evaluationCache (field `cache`,   *)
(* a Map kept as the sequence of its entries in insertion order), and the  *)
(* observations of one top-level call: the number of getCellValue calls    *)
(* (gcvCalls), of evaluateExpression runs (exprRuns), the cache keys the   *)
(* call deleted (removed) and stored (stored) and whether a reference was  *)
(* found in the processingStack (circularSeen).  getCellValue is the       *)
(* function gcv.                                                           *)
(***************************************************************************)
Null == [t |-> "null", n |-> 0, s |-> ""]

IsFormulaValue(v) == v.t = "str" /\ StartsWithEquals(v.s)

\* !isNaN(value) && value !== ''
IsNumeric(v) == v.t = "num" \/ (v.t = "str" /\ v.s \in NumeralStrings)

ToNumber(v) == IF v.t = "num" THEN v.n ELSE Numeral(v.s)

\* Map.prototype.has / get / set / delete on the entry sequence
CacheHas(cache, key) == \E i \in 1..Len(cache) : cache[i].key = key

CacheGet(cache, key) == cache[CHOOSE i \in 1..Len(cache) : cache[i].key = key]

CacheSet(cache, key, value, deps) ==
  LET e == [key |-> key, value |-> value, dependencies |-> deps]
  IN  IF CacheHas(cache, key)
      THEN [i \in 1..Len(cache) |-> IF cache[i].key = key THEN e ELSE cache[i]]
      ELSE Append(cache, e)

CacheKeys(cache) == {cache[i].key : i \in 1..Len(cache)}

\* Array.from(set).join(', ') over the insertion-ordered circularReferences
RECURSIVE JoinCells(_)
JoinCells(cs) ==
  IF cs = <<>> THEN ""
  ELSE IF Len(cs) = 1 THEN cs[1]
  ELSE cs[1] \o ", " \o JoinCells(Tail(cs))

CircularMarker(cs) == Str("#CIRCULAR! (" \o JoinCells(cs) \o ")")

\* Set.prototype.add on an insertion-ordered set kept as a sequence
OrderedAdd(seq, x) == IF \E i \in 1..Len(seq) : seq[i] = x THEN seq ELSE Append(seq, x)

\* JavaScript numbers that are not integers of the model: Infinity, NaN and
\* the quotient a / b of two integers that b does not divide
Infinity == [t |-> "inf", n |-> 0, s |-> ""]
NaN == [t |-> "nan", n |-> 0, s |-> ""]
Bool(b) == [t |-> "bool", n |-> IF b THEN 1 ELSE 0, s |-> ""]

\* a / b on JavaScript numbers (a >= 0, b >= 0)
Quotient(a, b) ==
  IF b = 0 THEN (IF a = 0 THEN NaN ELSE Infinity)
  ELSE IF a % b = 0 THEN Num(a \div b)
  ELSE [t |-> "frac", n |-> a, s |-> ToString(b)]

\* an exception in flight (what a throwing call yields), and the token of a
\* replace callback that threw
Raised == [t |-> "raised", n |-> 0, s |-> ""]
RaisedTok == [k |-> "raised", s |-> "", n |-> 0]

\* a try block that lets the exception through
TryNoCatch(threw, value, fallback) == value

\* try { value } catch (error) { fallback }
TryCatch(threw, value, fallback) == IF threw THEN fallback ELSE value

\* the call stack is exhausted by the nested evaluate calls in progress
Overflows(this) == Cardinality(this.processingStack) > this.host.depth

\* math.evaluate of mathjs on a processed expression: a number, a boolean,
\* a string (a lone double-quoted literal), or "throws" (a string operand of
\* an arithmetic operator cannot be converted to a number; a syntax error)
MathThrows == [t |-> "throw", n |-> 0, s |-> ""]

\* an operand of a mathjs operator: a string that is a numeral is converted
\* to its number
Operand(tok) ==
  IF tok.k = "str" /\ tok.s \in NumeralStrings THEN NumTok(Numeral(tok.s)) ELSE tok

\* x op y over two numbers
Binary(x, op, y) ==
  IF x.k # "num" \/ op.k # "op" \/ y.k # "num" THEN MathThrows
  ELSE IF op.s = "+" THEN Num(x.n + y.n)
  ELSE IF op.s = "*" THEN Num(x.n * y.n)
  ELSE IF op.s = "/" THEN Quotient(x.n, y.n)
  ELSE IF op.s = ">" THEN Bool(x.n > y.n)
  ELSE MathThrows

mathEvaluate(expression) ==
  IF expression = <<>> THEN Null
  ELSE IF Len(expression) = 1 /\ expression[1].k = "num" THEN Num(expression[1].n)
  ELSE IF Len(expression) = 1 /\ expression[1].k = "str" THEN Str(expression[1].s)
  ELSE IF Len(expression) = 3
  THEN Binary(Operand(expression[1]), expression[2], Operand(expression[3]))
  ELSE MathThrows

RECURSIVE evaluate(_, _, _)
RECURSIVE replaceCellReferences(_, _, _)
RECURSIVE replaceMatch(_, _, _)

(***************************************************************************)
(* The spreadsheet functions.  Each works on the text evaluate hands to    *)
(* evaluateExpression, in which replaceCellReferences has already replaced *)
(* the cell references.                                                    *)
(***************************************************************************)
\* the capture of /NAME\((.*)\)/: the tokens between the function name and
\* the last closing parenthesis
ArgsMatch(expression) ==
  LET closes == {i \in 2..Len(expression) : expression[i].k = "close"}
  IN  IF closes = {} THEN <<>>
      ELSE SubSeq(expression, 2, (CHOOSE i \in closes : \A j \in closes : j <= i) - 1)

\* parseArguments: split at the commas; an empty last argument is dropped
RECURSIVE parseArguments(_)
parseArguments(argsString) ==
  LET commas == {i \in 1..Len(argsString) : argsString[i].k = "comma"}
  IN  IF argsString = <<>> THEN <<>>
      ELSE IF commas = {} THEN <<argsString>>
      ELSE LET i == CHOOSE c \in commas : \A d \in commas : c <= d
           IN  <<SubSeq(argsString, 1, i - 1)>>
                 \o parseArguments(SubSeq(argsString, i + 1, Len(argsString)))

\* isValidCellReference: /^[A-Z]+[0-9]+$/
isValidCellReference(arg) == Len(arg) = 1 /\ arg[1].k = "ref"

\* arg.includes(':')
IncludesColon(arg) == \E i \in 1..Len(arg) : arg[i] = OpTok(":")

\* column index (columnLetterToIndex) and row of the cell ids of the model
ColumnOf(c) == CASE c \in {"A1", "A2", "A3"} -> 1 [] c = "B1" -> 2 [] c = "C1" -> 3
RowOf(c) == CASE c \in {"A1", "B1", "C1"} -> 1 [] c = "A2" -> 2 [] c = "A3" -> 3

Min(a, b) == IF a <= b THEN a ELSE b
Max(a, b) == IF a >= b THEN a ELSE b

\* generateCellRange: row by row, column by column (the cells of the model)
RECURSIVE generateCellRange(_, _, _, _, _)
generateCellRange(col, row, minCol, maxCol, maxRow) ==
  IF row > maxRow THEN <<>>
  ELSE IF col > maxCol THEN generateCellRange(minCol, row + 1, minCol, maxCol, maxRow)
  ELSE LET here == {c \in Cells : ColumnOf(c) = col /\ RowOf(c) = row}
       IN  (IF here = {} THEN <<>> ELSE <<CHOOSE c \in here : TRUE>>)
             \o generateCellRange(col + 1, row, minCol, maxCol, maxRow)

\* parseCellRange: the cells of start:end when both ends are cell references
parseCellRange(range) ==
  IF Len(range) = 3 /\ range[1].k = "ref" /\ range[2] = OpTok(":") /\ range[3].k = "ref"
  THEN generateCellRange(Min(ColumnOf(range[1].s), ColumnOf(range[3].s)),
                         Min(RowOf(range[1].s), RowOf(range[3].s)),
                         Min(ColumnOf(range[1].s), ColumnOf(range[3].s)),
                         Max(ColumnOf(range[1].s), ColumnOf(range[3].s)),
                         Max(RowOf(range[1].s), RowOf(range[3].s)))
  ELSE <<>>

\* parseFloat of a piece of expression text or of a cell value
ParseFloatText(arg) == IF arg # <<>> /\ arg[1].k = "num" THEN Num(arg[1].n) ELSE NaN
ParseFloatValue(v) == IF IsNumeric(v) THEN Num(ToNumber(v)) ELSE NaN

\* getNumericCellValue: records the dependency, reads the cell
getNumericCellValue(this, gcv, cellId) ==
  [this  |-> [this EXCEPT !.cellsUsed = @ \cup {cellId}, !.gcvCalls = @ + 1],
   value |-> IF ParseFloatValue(gcv[cellId]) = NaN THEN 0
             ELSE ParseFloatValue(gcv[cellId]).n]

\* the loop of evaluateSum / evaluateAverage over a list of cells; acc is
\* [this, sum, count], count kept by the rule of evaluateAverage
RECURSIVE AddCells(_, _, _)
AddCells(acc, gcv, cellIds) ==
  IF cellIds = <<>> THEN acc
  ELSE AddCells(
         [this  |-> getNumericCellValue(acc.this, gcv, Head(cellIds)).this,
          sum   |-> acc.sum + getNumericCellValue(acc.this, gcv, Head(cellIds)).value,
          count |-> IF \/ getNumericCellValue(acc.this, gcv, Head(cellIds)).value # 0
                       \/ gcv[Head(cellIds)] # Blank
                    THEN acc.count + 1 ELSE acc.count],
         gcv, Tail(cellIds))

\* the loop over the arguments
RECURSIVE AddArguments(_, _, _)
AddArguments(acc, gcv, args) ==
  IF args = <<>> THEN acc
  ELSE AddArguments(
         IF IncludesColon(Head(args))
         THEN AddCells(acc, gcv, parseCellRange(Head(args)))
         ELSE IF isValidCellReference(Head(args))
         THEN AddCells(acc, gcv, <<Head(args)[1].s>>)
         ELSE IF ParseFloatText(Head(args)) = NaN THEN acc
         ELSE [acc EXCEPT !.sum = @ + ParseFloatText(Head(args)).n, !.count = @ + 1],
         gcv, Tail(args))

SumResult(acc) == [this |-> acc.this, value |-> Num(acc.sum)]

evaluateSum(this, gcv, expression) ==
  IF ArgsMatch(expression) = <<>> THEN [this |-> this, value |-> Num(0)]
  ELSE SumResult(AddArguments([this |-> this, sum |-> 0, count |-> 0], gcv,
                              parseArguments(ArgsMatch(expression))))

AverageResult(acc) ==
  [this  |-> acc.this,
   value |-> IF acc.count = 0 THEN Str("#DIV/0!") ELSE Quotient(acc.sum, acc.count)]

evaluateAverage(this, gcv, expression) ==
  IF ArgsMatch(expression) = <<>> THEN [this |-> this, value |-> ErrorMarker]
  ELSE AverageResult(AddArguments([this |-> this, sum |-> 0, count |-> 0], gcv,
                                  parseArguments(ArgsMatch(expression))))

\* the text of a piece of expression
TokText(tok) ==
  CASE tok.k = "num"   -> ToString(tok.n)
    [] tok.k = "str"   -> "\"" \o tok.s \o "\""
    [] tok.k = "fn"    -> tok.s \o "("
    [] tok.k = "comma" -> ","
    [] tok.k = "close" -> ")"
    [] OTHER           -> tok.s

RECURSIVE TextOf(_)
TextOf(arg) == IF arg = <<>> THEN "" ELSE TokText(Head(arg)) \o TextOf(Tail(arg))

Largest(S) == CHOOSE i \in S : \A j \in S : j <= i

\* the captures of /IF\((.*),(.*),(.*)\)/i: each group as long as the rest
\* of the pattern allows
IfMatch(expression) ==
  LET closes  == {i \in 2..Len(expression) : expression[i].k = "close"}
      commas  == {i \in 2..Len(expression) : expression[i].k = "comma"}
      seconds == {y \in commas : \E z \in closes : z > y}
      firsts  == {x \in commas : \E y \in seconds : y > x}
  IN  IF firsts = {} THEN <<>>
      ELSE <<SubSeq(expression, 2, Largest(firsts) - 1),
             SubSeq(expression, Largest(firsts) + 1, Largest(seconds) - 1),
             SubSeq(expression, Largest(seconds) + 1, Largest(closes) - 1)>>

\* a condition that always counts as true
TruthyAlways(v) == TRUE

\* the truth of a JavaScript value: if (value), Boolean(value)
Truthy(v) ==
  CASE v.t = "bool" -> v.n = 1
    [] v.t = "num"  -> v.n # 0
    [] v.t = "str"  -> v.s # ""
    [] v.t \in {"nan", "null"} -> FALSE
    [] OTHER -> TRUE

\* value.substring(1, value.length - 1) of a text that starts and ends with '"'
Unquoted(v) ==
  IF Len(v) = 1 THEN Str(v[1].s)
  ELSE Str(v[1].s \o "\"" \o TextOf(SubSeq(v, 2, Len(v) - 1)) \o "\"" \o v[Len(v)].s)

\* math.evaluate(text) of a branch or an argument, the text itself when it throws
EvaluatedOrText(result, text) == TryCatch(result = MathThrows, result, Str(TextOf(text)))

\* a getCellValue call inside a function: it returns or raises
ReadCell(this, value) == [this |-> [this EXCEPT !.gcvCalls = @ + 1], value |-> value]

\* the try / catch around the body of a function: '#ERROR!' when it threw
FunctionCatch(r) ==
  [this  |-> [r.this EXCEPT !.caught = IF r.value = Raised THEN @ + 1 ELSE @],
   value |-> TryCatch(r.value = Raised, r.value, ErrorMarker)]

\* the value of the branch evaluateIf returns
IfValue(this, gcv, v) ==
  IF isValidCellReference(v) THEN ReadCell(this, gcv[v[1].s])
  ELSE IF v # <<>> /\ v[1].k = "str" /\ v[Len(v)].k = "str"
  THEN [this |-> this, value |-> Unquoted(v)]
  ELSE [this |-> this, value |-> EvaluatedOrText(mathEvaluate(v), v)]

\* evaluateIf once the condition has been processed: p is what
\* replaceCellReferences(condition) returned
IfResult(p, gcv, conditionResult, trueValue, falseValue) ==
  IF conditionResult = MathThrows
  THEN [this |-> p.this, value |-> TryCatch(TRUE, MathThrows, ErrorMarker)]
  ELSE IF Truthy(conditionResult) THEN IfValue(p.this, gcv, trueValue)
  ELSE IfValue(p.this, gcv, falseValue)

IfBranches(p, gcv, trueValue, falseValue) ==
  IfResult(p, gcv, mathEvaluate(p.out), trueValue, falseValue)

evaluateIf(this, gcv, expression) ==
  IF IfMatch(expression) = <<>> THEN [this |-> this, value |-> ErrorMarker]
  ELSE FunctionCatch(IfBranches(replaceCellReferences(this, gcv, IfMatch(expression)[1]),
                                gcv, IfMatch(expression)[2], IfMatch(expression)[3]))

\* the conversion of an argument's value to a boolean in evaluateAnd / evaluateOr
ToBoolean(value) ==
  IF value.t = "str"
  THEN \/ value.s \in {"true", "TRUE", "True"}
       \/ value.s = "1"
       \/ ParseFloatValue(value) # Num(0)
  ELSE Truthy(value)

\* the value of one argument: a cell reference is recorded and read
LogicalValue(this, gcv, arg) ==
  IF isValidCellReference(arg)
  THEN ReadCell([this EXCEPT !.cellsUsed = @ \cup {arg[1].s}], gcv[arg[1].s])
  ELSE [this |-> this, value |-> EvaluatedOrText(mathEvaluate(arg), arg)]

\* the loop of evaluateAnd (stopAt = FALSE) and of evaluateOr (stopAt = TRUE):
\* it returns at the first argument whose boolean is stopAt
RECURSIVE LogicalLoop(_, _, _, _)
LogicalStep(r, gcv, args, stopAt) ==
  IF r.value = Raised THEN r
  ELSE IF ToBoolean(r.value) = stopAt THEN [this |-> r.this, value |-> Bool(stopAt)]
  ELSE LogicalLoop(r.this, gcv, Tail(args), stopAt)

LogicalLoop(this, gcv, args, stopAt) ==
  IF args = <<>> THEN [this |-> this, value |-> Bool(~stopAt)]
  ELSE LogicalStep(LogicalValue(this, gcv, Head(args)), gcv, args, stopAt)

evaluateAnd(this, gcv, expression) ==
  IF ArgsMatch(expression) = <<>> THEN [this |-> this, value |-> ErrorMarker]
  ELSE FunctionCatch(LogicalLoop(this, gcv, parseArguments(ArgsMatch(expression)), FALSE))

evaluateOr(this, gcv, expression) ==
  IF ArgsMatch(expression) = <<>> THEN [this |-> this, value |-> ErrorMarker]
  ELSE FunctionCatch(LogicalLoop(this, gcv, parseArguments(ArgsMatch(expression)), TRUE))

\* evaluateNot once the argument has its value
NotResult(r) ==
  IF r.value = Raised THEN r
  ELSE [this |-> r.this, value |-> Bool(~ToBoolean(r.value))]

evaluateNot(this, gcv, expression) ==
  IF ArgsMatch(expression) = <<>> THEN [this |-> this, value |-> ErrorMarker]
  ELSE FunctionCatch(NotResult(LogicalValue(this, gcv, ArgsMatch(expression))))

\* the result check after math.evaluate
CheckedMath(result) ==
  IF result = Null \/ result = NaN THEN ErrorMarker
  ELSE TryCatch(result = MathThrows, result, ErrorMarker)

\* evaluateExpression: the dispatch on the function name, else mathjs
evaluateExpression(this, gcv, expression) ==
  IF expression = <<>> THEN [this |-> this, value |-> Num(0)]
  ELSE IF expression[1] = FnTok("SUM") THEN evaluateSum(this, gcv, expression)
  ELSE IF expression[1] = FnTok("AVERAGE") THEN evaluateAverage(this, gcv, expression)
  ELSE IF expression[1] = FnTok("IF") THEN evaluateIf(this, gcv, expression)
  ELSE IF expression[1] = FnTok("AND") THEN evaluateAnd(this, gcv, expression)
  ELSE IF expression[1] = FnTok("OR") THEN evaluateOr(this, gcv, expression)
  ELSE IF expression[1] = FnTok("NOT") THEN evaluateNot(this, gcv, expression)
  ELSE [this |-> this, value |-> CheckedMath(mathEvaluate(expression))]

\* the text the replace callback returns for a resolved value
Substitute(value) ==
  IF IsNumeric(value) THEN NumTok(ToNumber(value))
  ELSE IF value = Blank \/ value = Null THEN NumTok(0)
  ELSE StrTok(value.s)

\* what the try block of the callback yields: getCellValue may raise, the
\* nested evaluate call may exhaust the call stack
ResolveValue(pushed, gcv, raw) ==
  IF raw = Raised THEN [this |-> pushed, value |-> Raised]
  ELSE IF ~IsFormulaValue(raw) THEN [this |-> pushed, value |-> raw]
  ELSE IF Overflows(pushed) /\ pushed.host.caught = "callback"
  THEN [this |-> pushed, value |-> Raised]
  ELSE evaluate(pushed, gcv, raw)

\* the catch and finally blocks of the callback and its return value
ResolvedToken(r, match) ==
  [this |-> [r.this EXCEPT !.processingStack = @ \ {match},
                           !.caught = IF r.value = Raised THEN @ + 1 ELSE @],
   tok  |-> IF TryCatch(r.value = Raised, r.value, Num(0)) = Raised THEN RaisedTok
            ELSE Substitute(TryCatch(r.value = Raised, r.value, Num(0)))]

\* the callback of expression.replace(cellRefRegex, ...) for one match
replaceMatch(this, gcv, match) ==
  LET used == [this EXCEPT !.cellsUsed = @ \cup {match}]
  IN  IF match \in used.processingStack
      THEN [this |-> [used EXCEPT !.circularReferences = OrderedAdd(@, match),
                                  !.circularSeen = TRUE],
            tok  |-> NumTok(0)]
      ELSE ResolvedToken(ResolveValue([used EXCEPT !.processingStack = @ \cup {match},
                                                   !.gcvCalls = @ + 1],
                                      gcv, gcv[match]),
                         match)

\* a match inside a double-quoted literal (the regex does not look at what
\* precedes a cell id, and '"' may follow it): what the callback returns is
\* put between the quotes
Requoted(r) ==
  IF r.tok = RaisedTok THEN r
  ELSE [this |-> r.this,
        tok  |-> IF r.tok.k = "num" THEN StrTok(ToString(r.tok.n))
                 ELSE RequotedTok(r.tok.s)]

\* expression.replace: one left-to-right pass over the matches, those inside
\* a quoted literal that is a cell id included; a callback that throws ends it
RECURSIVE ReplaceAll(_, _, _)
ReplaceAll(this, gcv, expression) ==
  IF expression = <<>> THEN [this |-> this, out |-> <<>>]
  ELSE LET tok   == Head(expression)
           first == IF tok.k = "ref" THEN replaceMatch(this, gcv, tok.s)
                    ELSE IF tok.k = "str" /\ tok.s \in Cells
                    THEN Requoted(replaceMatch(this, gcv, tok.s))
                    ELSE [this |-> this, tok |-> tok]
       IN  IF first.tok = RaisedTok THEN [this |-> first.this, out |-> <<RaisedTok>>]
           ELSE LET rest == ReplaceAll(first.this, gcv, Tail(expression))
                IN  IF rest.out = <<RaisedTok>> THEN rest
                    ELSE [this |-> rest.this, out |-> <<first.tok>> \o rest.out]

\* the try / catch around the pass: '0' when it threw
CaughtReplace(p) ==
  [this |-> p.this, out |-> TryCatch(p.out = <<RaisedTok>>, p.out, <<NumTok(0)>>)]

replaceCellReferences(this, gcv, expression) ==
  CaughtReplace(ReplaceAll(this, gcv, expression))

\* a store that leaves the cache as it was
CacheStoreNothing(cache, key, value, deps) == cache

\* a store that never deletes the oldest entry
CacheStoreNoEviction(cache, key, value, deps) == CacheSet(cache, key, value, deps)

\* a store that deletes the entry it has just added when the limit is passed
CacheStoreEvictNewest(cache, key, value, deps) ==
  LET stored == CacheSet(cache, key, value, deps)
  IN  IF Len(stored) > CacheCapacity THEN SubSeq(stored, 1, Len(stored) - 1) ELSE stored

\* the store of a computed result and the capacity limit
CacheStore(cache, key, value, deps) ==
  LET stored == CacheSet(cache, key, value, deps)
  IN  IF Len(stored) > CacheCapacity THEN Tail(stored) ELSE stored

\* the end of a cache miss: e is what evaluateExpression returned
Store(e, key) ==
  [this  |-> [e.this EXCEPT
                !.exprRuns = @ + 1,
                !.cache = CacheStore(e.this.cache, key, e.value, e.this.cellsUsed),
                !.stored = @ \cup {key},
                !.removed = @ \cup (CacheKeys(e.this.cache)
                                    \ CacheKeys(CacheStore(e.this.cache, key, e.value,
                                                           e.this.cellsUsed)))],
   value |-> e.value]

\* the catch of evaluate around evaluateExpression and the store
CaughtStore(e, key) ==
  IF e.value \in {Raised, MathThrows}
  THEN [this |-> e.this, value |-> TryCatch(TRUE, e.value, ErrorMarker)]
  ELSE Store(e, key)

\* guard clauses that count the call as a miss before they return
GuardedCounted(this, formula) ==
  [this  |-> [this EXCEPT !.cacheMisses = @ + 1, !.cellsUsed = {}],
   value |-> IF formula = Null THEN Blank ELSE formula]

\* the guard clauses of evaluate: what is not a formula is returned at once
Guarded(this, formula) ==
  [this  |-> this,
   value |-> IF formula = Null THEN Blank
             ELSE IF formula.t # "str" THEN formula
             ELSE IF formula = Blank THEN Blank
             ELSE formula]

evaluate(this, gcv, formula) ==
  IF \/ formula = Null
     \/ formula.t # "str"
     \/ formula = Blank
     \/ ~StartsWithEquals(formula.s)
  THEN Guarded(this, formula)
  ELSE IF CacheHas(this.cache, formula.s)
  THEN LET cachedResult == CacheGet(this.cache, formula.s)
       IN  [this  |-> [this EXCEPT !.cacheHits = @ + 1,
                                   !.cellsUsed = cachedResult.dependencies],
            value |-> cachedResult.value]
  ELSE LET missed     == [this EXCEPT !.cacheMisses = @ + 1, !.cellsUsed = {}]
           expression == Tokens(formula.s)
       IN  IF expression = <<>> THEN [this |-> missed, value |-> Num(0)]
           ELSE IF Overflows(missed) /\ missed.host.caught = "evaluate"
           THEN [this  |-> [missed EXCEPT !.caught = @ + 1],
                 value |-> TryCatch(TRUE, Raised, ErrorMarker)]
           ELSE LET p == replaceCellReferences(missed, gcv, expression)
                IN  IF p.out = <<RaisedTok>>
                    THEN [this |-> p.this, value |-> TryCatch(TRUE, Raised, ErrorMarker)]
                    ELSE IF p.this.circularReferences # <<>>
                    THEN [this  |-> [p.this EXCEPT !.circularReferences = <<>>],
                          value |-> CircularMarker(p.this.circularReferences)]
                    ELSE CaughtStore(evaluateExpression(p.this, gcv, p.out), formula.s)

getCellsUsed(this) == this.cellsUsed

clearCache(cache) == <<>>

\* an invalidation that looks at the first cell id only
invalidateFirstIdOnly(cache, cellIds) ==
  IF ~cellIds.isArray \/ cellIds.ids = <<>> THEN cache
  ELSE SelectSeq(cache, LAMBDA entry : cellIds.ids[1] \notin entry.dependencies)

\* an invalidation that also deletes the entries that record no cell
invalidateUntrackedToo(cache, cellIds) ==
  IF ~cellIds.isArray THEN cache
  ELSE SelectSeq(cache,
         LAMBDA entry : /\ entry.dependencies # {}
                        /\ ~\E i \in 1..Len(cellIds.ids) : cellIds.ids[i] \in entry.dependencies)

\* invalidateCellDependencies(cellIds): cellIds.isArray tells whether the
\* argument is an array, cellIds.ids are its elements
invalidateCellDependencies(cache, cellIds) ==
  IF ~cellIds.isArray THEN cache
  ELSE SelectSeq(cache,
         LAMBDA entry : ~\E i \in 1..Len(cellIds.ids) : cellIds.ids[i] \in entry.dependencies)

\* new FormulaParser(getCellValueFn): the instance fields of a fresh parser
NewParserFields ==
  [cellsUsed |-> {}, cacheHits |-> 0, cacheMisses |-> 0,
   circularReferences |-> <<>>, processingStack |-> {}]

(***************************************************************************)
(* SpreadsheetContext: the cells of the active sheet and the reducer.      *)
(* A cell is [value, formula]; a cell that was never written has the       *)
(* value undefined (Null) and no formula ("").                             *)
(***************************************************************************)
NoCell == [value |-> Null, formula |-> ""]

\* the UPDATE_CELL and APPLY_FORMULA cases: both replace value and formula
spreadsheetReducer(state, action) ==
  IF action.type \in {"UPDATE_CELL", "APPLY_FORMULA"}
  THEN [state EXCEPT ![action.cellId] = [value |-> action.value, formula |-> action.formula]]
  ELSE state

\* a JavaScript value is falsy
Falsy(v) == v = Null \/ v = Blank \/ v = Num(0)

\* getCellValue of a render: sheet?.cells[cellId]?.value || ''
getCellValue(state) == [c \in Cells |-> IF Falsy(state[c].value) THEN Blank ELSE state[c].value]

\* getCellData of a render: sheet?.cells[cellId] || {}
getCellData(state, c) == state[c]

(***************************************************************************)
(* useSpreadsheetOperations.  The handlers take the world w they change:   *)
(* the parser (w.this), the cells after the reducer actions dispatched so  *)
(* far (w.queued), and what the pass observed (w.reentered: a              *)
(* recalculateDependentCells call for a cell whose call is still active;   *)
(* w.overflowed: the nesting went past MaxCallDepth; w.failures: the       *)
(* dependents whose re-evaluation threw, each with the number of actions   *)
(* dispatched before and the siblings forEach had still to visit).  They read the       *)
(* snapshot of the render that created them: snap.cells, snap.dependencies.*)
(* A dependency object is a function from the cell ids that are its keys   *)
(* to the insertion-ordered Set of dependents.                             *)
(***************************************************************************)
InSeq(x, seq) == \E i \in 1..Len(seq) : seq[i] = x

\* dispatch(action): the reducer runs on the queued state; w.log keeps the
\* cell and the value of every action dispatched during the call
Dispatch(w, action) ==
  [w EXCEPT !.queued = spreadsheetReducer(@, action),
            !.log = Append(@, [cellId |-> action.cellId, value |-> action.value])]

\* the dependents that forEach visits after cellId in the pass over the
\* dependents of `parent` and that hold a formula
SiblingsAfter(snap, parent, cellId) ==
  LET seq == snap.dependencies[parent]
  IN  {seq[k] : k \in {j \in 1..Len(seq) :
                         /\ \E i \in 1..(j - 1) : seq[i] = cellId
                         /\ getCellData(snap.cells, seq[j]).formula # ""}}

\* a catch block that does nothing
CatchNothing(inner, cellId, formula) == inner.w

RECURSIVE recalculateDependentCells(_, _, _, _)
RECURSIVE RecalculateEach(_, _, _, _)

\* dispatch APPLY_FORMULA with the value evaluate returned (r)
DispatchResult(w, r, cellId, formula) ==
  Dispatch([w EXCEPT !.this = r.this],
           [type |-> "APPLY_FORMULA", cellId |-> cellId, formula |-> formula,
            value |-> r.value])

\* the catch block: the nested call threw, dispatch '#ERROR!' for the cell
CatchError(inner, cellId, formula) ==
  IF inner.threw
  THEN Dispatch(inner.w, [type |-> "APPLY_FORMULA", cellId |-> cellId,
                          formula |-> formula, value |-> ErrorMarker])
  ELSE inner.w

\* the body of the forEach callback for one dependent cell
RecalculateCell(w, snap, cellId, path) ==
  IF getCellData(snap.cells, cellId).formula = ""
  THEN w
  ELSE CatchError(
         recalculateDependentCells(
           DispatchResult(w,
                          evaluate(w.this, getCellValue(snap.cells),
                                   Str(getCellData(snap.cells, cellId).formula)),
                          cellId, getCellData(snap.cells, cellId).formula),
           snap, cellId, path),
         cellId, getCellData(snap.cells, cellId).formula)

\* the forEach over dependentCells, from the first of `cellIds` on
RecalculateEach(w, snap, cellIds, path) ==
  IF cellIds = <<>> THEN w
  ELSE RecalculateEach(RecalculateCell(w, snap, Head(cellIds), path),
                       snap, Tail(cellIds), path)

\* recalculateDependentCells(changedCellId); `path` holds the cells whose
\* call is active.  A call nested deeper than MaxCallDepth exhausts the call
\* stack: it throws (a RangeError) into the try block of its caller.
recalculateDependentCells(w, snap, changedCellId, path) ==
  IF Len(path) >= MaxCallDepth
  THEN [w |-> [w EXCEPT !.overflowed = TRUE,
                        !.reentered = @ \/ InSeq(changedCellId, path),
                        !.failures = @ \cup
                           {[cell |-> changedCellId, at |-> Len(w.log),
                             rest |-> SiblingsAfter(snap, path[Len(path)], changedCellId)]}],
        threw |-> TRUE]
  ELSE IF changedCellId \notin DOMAIN snap.dependencies
  THEN [w |-> w, threw |-> FALSE]
  ELSE [w |-> RecalculateEach([w EXCEPT !.reentered = @ \/ InSeq(changedCellId, path)],
                              snap, snap.dependencies[changedCellId],
                              Append(path, changedCellId)),
        threw |-> FALSE]

\* the dependency object updateCellValue builds: { ...dependencies } with
\* cellId added to the Set of every cell used
NewDependencies(dependencies, used, cellId) ==
  [d \in DOMAIN dependencies \cup used |->
     IF d \in used
     THEN OrderedAdd(IF d \in DOMAIN dependencies THEN dependencies[d] ELSE <<>>, cellId)
     ELSE dependencies[d]]

\* a formula branch that goes on to recalculate the dependents of the cell
FormulaBranchPropagating(w, r, snap, cellId, value) ==
  recalculateDependentCells(
    DispatchResult([w EXCEPT !.setDeps = TRUE,
                             !.newDependencies =
                                NewDependencies(snap.dependencies, getCellsUsed(r.this), cellId)],
                   r, cellId, value.s),
    snap, cellId, <<>>).w

\* the formula branch once evaluate has returned r: setDependencies and
\* dispatch APPLY_FORMULA
FormulaBranch(w, r, snap, cellId, value) ==
  DispatchResult([w EXCEPT !.setDeps = TRUE,
                           !.newDependencies =
                              NewDependencies(snap.dependencies, getCellsUsed(r.this), cellId)],
                 r, cellId, value.s)

\* the plain branch once UPDATE_CELL has been dispatched (w)
PlainBranch(w, snap, cellId) ==
  IF cellId \in DOMAIN snap.dependencies
  THEN recalculateDependentCells(w, snap, cellId, <<>>).w
  ELSE w

\* updateCellValue(cellId, value): the world after the call, w.newDependencies
\* the object passed to setDependencies (w.setDeps tells whether it was)
updateCellValue(w, snap, cellId, value) ==
  IF StartsWithEquals(value.s)
  THEN FormulaBranch(w, evaluate(w.this, getCellValue(snap.cells), value),
                     snap, cellId, value)
  ELSE PlainBranch(Dispatch(w, [type |-> "UPDATE_CELL", cellId |-> cellId,
                                value |-> value, formula |-> ""]),
                   snap, cellId)

(***************************************************************************)
(* State.                                                                  *)
(***************************************************************************)
VARIABLES
  evaluationCache,     \* the module-level Map of FormulaParser.js
  cellsUsed,           \* FormulaParser instance fields
  cacheHits,
  cacheMisses,
  circularReferences,
  processingStack,
  cells,               \* the cells of the committed state (what the current render reads)
  queuedCells,         \* the cells after the reducer actions dispatched since that render
  dependencies,        \* the dependencies state of the current render
  queuedDependencies,  \* the value passed to setDependencies since that render
  pending,             \* a state update is queued: a render is due
  updates,             \* number of updateCellValue calls made
  sheet,               \* the store behind getCellValue when the parser is driven directly
  dirty,               \* cells written and not yet passed to invalidateCellDependencies
  evaluated,           \* per formula: the value its last top-level evaluate returned,
                       \* while its cache entry has not been removed since
  last,                \* the operation of the last step: its input and what it returned
  writes,              \* number of writes made to the store
  host,                \* the call stack left to the parser: [depth, caught]
  converted,           \* the utility functions: the input and the results of the calls applied
  heap                 \* the Set objects of the parser and of the cache entries, by identity

vars == <<evaluationCache, cellsUsed, cacheHits, cacheMisses, circularReferences,
          processingStack, cells, queuedCells, dependencies, queuedDependencies,
          pending, updates, sheet, dirty, evaluated, last, writes, host, converted,
          heap>>

parserVars == <<cellsUsed, cacheHits, cacheMisses, circularReferences, processingStack>>

hookVars == <<cells, queuedCells, dependencies, queuedDependencies, pending, updates>>

harnessVars == <<sheet, dirty, evaluated, writes>>

hostVars == <<host, converted, heap>>

\* the identities a Set object may have, and the absence of one
Refs == 1..(CacheCapacity + 3)

\* a reference to none of the objects
NoRef == Cardinality(Refs) + 1

\* the objects after the constructor: this.cellsUsed is the first Set made.
\* sets: the content of each object; cellsUsed: the object this.cellsUsed
\* refers to; dependencies: the object each cache entry holds; recorded: the
\* content each entry's set had when the entry was stored; returned: the
\* object the caller got from getCellsUsed; from: the key whose hit it
\* exposed
NoSets ==
  [sets |-> [r \in Refs |-> {}], cellsUsed |-> 1,
   dependencies |-> [f \in Formulas |-> NoRef],
   recorded |-> [f \in Formulas |-> {}], returned |-> NoRef, from |-> ""]

NoConversion == [kind |-> "none", trail |-> <<>>, corners |-> <<>>]

\* a call stack that no chain of formula cells of the model exhausts
AmpleStack == [depth |-> Cardinality(Cells) + 1, caught |-> "callback"]

\* the parser as the operators take it
This ==
  [cache |-> evaluationCache, cellsUsed |-> cellsUsed, cacheHits |-> cacheHits,
   cacheMisses |-> cacheMisses, circularReferences |-> circularReferences,
   processingStack |-> processingStack, host |-> host, caught |-> 0,
   gcvCalls |-> 0, exprRuns |-> 0, removed |-> {}, stored |-> {},
   circularSeen |-> FALSE]

Unset == [t |-> "unset", n |-> 0, s |-> ""]

NoOp ==
  [op |-> "none", formula |-> Null, value |-> Null, hit |-> FALSE,
   circularSeen |-> FALSE, removed |-> {}, stored |-> {}, ids |-> <<>>,
   isArray |-> FALSE, cell |-> "", changed |-> FALSE, clean |-> FALSE,
   reentered |-> FALSE, overflowed |-> FALSE, caught |-> 0, log |-> <<>>,
   failures |-> {}, before |-> NoCell]

\* what a caller passes to evaluate
EvalInputs ==
  {Str(f) : f \in {"=", "=B1", "=A1+1", "=B1+C1", "1", "=AND(A1,B1)", "=OR(A1,B1)", ""}}
  \cup {Null, Num(5)}

\* what a caller passes to invalidateCellDependencies: arrays of cell ids,
\* and one argument that is not an array
IdLists ==
  {[ids |-> l, isArray |-> TRUE] :
     l \in {<<"A1">>, <<"C1">>, <<"A1", "C1">>}}
  \cup {[ids |-> <<"A1">>, isArray |-> FALSE]}

\* what the store may hold for each cell when the parser is driven directly
RawContents(c) ==
  CASE c = "A1" -> {Str(s) : s \in {"", "1", "=", "=B1", "=A1+1"}}
    [] c = "B1" -> {Str(s) : s \in {"", "=A1"}}
    [] c = "C1" -> {Str(s) : s \in {"", "1"}}
    [] OTHER -> {Blank}

\* a parser is constructed over a store that holds any document
ParserInit ==
  /\ evaluationCache = <<>>
  /\ cellsUsed = NewParserFields.cellsUsed
  /\ cacheHits = NewParserFields.cacheHits
  /\ cacheMisses = NewParserFields.cacheMisses
  /\ circularReferences = NewParserFields.circularReferences
  /\ processingStack = NewParserFields.processingStack
  /\ sheet \in {sh \in [Cells -> UNION {RawContents(c) : c \in Cells}] :
                  \A c \in Cells : sh[c] \in RawContents(c)}
  /\ dirty = {}
  /\ evaluated = [f \in Formulas |-> Unset]
  /\ last = NoOp
  /\ writes = 0
  /\ host = AmpleStack
  /\ heap = NoSets
  /\ converted = NoConversion
  /\ cells = [c \in Cells |-> NoCell]
  /\ queuedCells = cells
  /\ dependencies = <<>>
  /\ queuedDependencies = dependencies
  /\ pending = FALSE
  /\ updates = 0

\* the store changes the content of a cell
SetCell(c, v) ==
  /\ writes < MaxWrites
  /\ sheet[c] # v
  /\ sheet' = [sheet EXCEPT ![c] = v]
  /\ dirty' = dirty \cup {c}
  /\ writes' = writes + 1
  /\ last' = [NoOp EXCEPT !.op = "set"]
  /\ UNCHANGED <<evaluationCache, parserVars, evaluated, hookVars, hostVars>>

\* a top-level formulaParser.evaluate(formula) over the store
Evaluate(formula) ==
  /\ cacheHits + cacheMisses < MaxCount
  /\ LET r == evaluate(This, sheet, formula)
         t == r.this
     IN  /\ evaluationCache' = t.cache
         /\ cellsUsed' = t.cellsUsed
         /\ cacheHits' = t.cacheHits
         /\ cacheMisses' = t.cacheMisses
         /\ circularReferences' = t.circularReferences
         /\ processingStack' = t.processingStack
         /\ evaluated' = [f \in Formulas |->
                            IF formula = Str(f) THEN r.value
                            ELSE IF f \in t.removed THEN Unset
                            ELSE evaluated[f]]
         /\ last' = [NoOp EXCEPT
                       !.op = "evaluate", !.formula = formula, !.value = r.value,
                       !.hit = (t.cacheHits = cacheHits + 1 /\ t.cacheMisses = cacheMisses),
                       !.circularSeen = t.circularSeen, !.removed = t.removed,
                       !.stored = t.stored,
                       !.caught = t.caught]
  /\ UNCHANGED <<sheet, dirty, writes, hookVars, hostVars>>

\* formulaParser.invalidateCellDependencies(cellIds)
InvalidateCellDependencies(cellIds) ==
  /\ evaluationCache # <<>>
  /\ evaluationCache' = invalidateCellDependencies(evaluationCache, cellIds)
  /\ dirty' = IF cellIds.isArray
              THEN dirty \ {cellIds.ids[i] : i \in 1..Len(cellIds.ids)}
              ELSE dirty
  /\ evaluated' = [f \in Formulas |->
                     IF f \in CacheKeys(evaluationCache) \ CacheKeys(evaluationCache')
                     THEN Unset ELSE evaluated[f]]
  /\ last' = [NoOp EXCEPT !.op = "invalidate",
                          !.removed = CacheKeys(evaluationCache) \ CacheKeys(evaluationCache'),
                          !.ids = cellIds.ids, !.isArray = cellIds.isArray]
  /\ UNCHANGED <<parserVars, sheet, writes, hookVars, hostVars>>

\* formulaParser.clearCache()
ClearCache ==
  /\ evaluationCache # <<>>
  /\ evaluationCache' = clearCache(evaluationCache)
  /\ dirty' = {}
  /\ evaluated' = [f \in Formulas |-> Unset]
  /\ last' = [NoOp EXCEPT !.op = "clear", !.removed = CacheKeys(evaluationCache)]
  /\ UNCHANGED <<parserVars, sheet, writes, hookVars, hostVars>>

ParserNext ==
  \/ \E c \in Cells : \E v \in RawContents(c) : SetCell(c, v)
  \/ \E formula \in EvalInputs : Evaluate(formula)
  \/ \E cellIds \in IdLists : InvalidateCellDependencies(cellIds)
  \/ ClearCache

ParserSpec == ParserInit /\ [][ParserNext]_vars

(***************************************************************************)
(* The Set objects of evaluate (SetsSpec): this.cellsUsed and the          *)
(* dependencies of the cache entries are references to objects, and the    *)
(* caller of getCellsUsed holds the object it was handed.  The store holds *)
(* plain values, so that no evaluation is nested in another.               *)
(***************************************************************************)
\* the objects something still refers to
InUse(h) ==
  ({h.cellsUsed, h.returned} \cup {h.dependencies[f] : f \in Formulas}) \ {NoRef}

\* a reference handed on as it is: no object is made
SameSet(h, ref) == [heap |-> h, ref |-> ref]

\* new Set(other): a new object with the content of the other one
NewSet(h, ref) ==
  LET n == CHOOSE r \in Refs : r \notin InUse(h)
  IN  [heap |-> [h EXCEPT !.sets[n] = h.sets[ref]], ref |-> n]

\* the cache hit: this.cellsUsed = new Set(cachedResult.dependencies)
HitSets(h, key) ==
  LET n == NewSet(h, h.dependencies[key])
  IN  [n.heap EXCEPT !.cellsUsed = n.ref]

\* the cache miss: this.cellsUsed.clear(), then the add of each cell the
\* formula uses, on the object this.cellsUsed refers to
MissSets(h, used) == [h EXCEPT !.sets[h.cellsUsed] = used]

\* the store: dependencies: new Set(this.cellsUsed)
StoreSets(h, key) ==
  LET n == NewSet(h, h.cellsUsed)
  IN  [n.heap EXCEPT !.dependencies[key] = n.ref,
                     !.recorded[key] = h.sets[h.cellsUsed]]

\* the entries deleted from the cache no longer refer to their sets
EvictSets(h, keys) ==
  [h EXCEPT !.dependencies = [f \in Formulas |-> IF f \in keys THEN @[f] ELSE NoRef],
            !.recorded = [f \in Formulas |-> IF f \in keys THEN @[f] ELSE {}]]

\* an object nothing refers to is gone
Collect(h) ==
  [h EXCEPT !.sets = [r \in Refs |-> IF r \in InUse(h) THEN @[r] ELSE {}]]

\* the cache with each entry's dependencies read from its object
CacheView(cache, h) ==
  [i \in 1..Len(cache) |->
     [cache[i] EXCEPT !.dependencies = h.sets[h.dependencies[cache[i].key]]]]

\* what evaluate did to the objects: t is the parser it left, hit and miss
\* tell which counter it raised
SetsAfter(h, t, key, hit, miss) ==
  LET looked == IF hit THEN HitSets(h, key)
                ELSE IF miss THEN MissSets(h, t.cellsUsed)
                ELSE h
      stored == IF key \in t.stored THEN StoreSets(looked, key) ELSE looked
  IN  Collect(EvictSets(stored, CacheKeys(t.cache)))

\* getCellsUsed() returns this.cellsUsed itself
getCellsUsedSet(h) == h.cellsUsed

\* the formulas evaluated and the plain values of the store
SetsInputs == {Str(f) : f \in {"=A1+1", "=B1+C1", "=B1"}}

SetsContents(c) ==
  CASE c = "A1" -> {Str("1")}
    [] c = "B1" -> {Str(""), Str("2")}
    [] c = "C1" -> {Str("1")}
    [] OTHER -> {Blank}

SetsInit ==
  /\ evaluationCache = <<>>
  /\ cellsUsed = NewParserFields.cellsUsed
  /\ cacheHits = NewParserFields.cacheHits
  /\ cacheMisses = NewParserFields.cacheMisses
  /\ circularReferences = NewParserFields.circularReferences
  /\ processingStack = NewParserFields.processingStack
  /\ sheet \in {sh \in [Cells -> UNION {SetsContents(c) : c \in Cells}] :
                  \A c \in Cells : sh[c] \in SetsContents(c)}
  /\ dirty = {}
  /\ evaluated = [f \in Formulas |-> Unset]
  /\ last = NoOp
  /\ writes = 0
  /\ host = AmpleStack
  /\ heap = NoSets
  /\ converted = NoConversion
  /\ cells = [c \in Cells |-> NoCell]
  /\ queuedCells = cells
  /\ dependencies = <<>>
  /\ queuedDependencies = dependencies
  /\ pending = FALSE
  /\ updates = 0

\* a top-level formulaParser.evaluate(formula), with the objects it touches
EvaluateSets(formula) ==
  /\ cacheHits + cacheMisses < MaxSetCalls
  /\ LET r == evaluate(This, sheet, formula)
         t == r.this
     IN  /\ heap' = SetsAfter(heap, t, formula.s, t.cacheHits = cacheHits + 1,
                              t.cacheMisses = cacheMisses + 1)
         /\ evaluationCache' = CacheView(t.cache, heap')
         /\ cellsUsed' = heap'.sets[heap'.cellsUsed]
         /\ cacheHits' = t.cacheHits
         /\ cacheMisses' = t.cacheMisses
         /\ circularReferences' = t.circularReferences
         /\ processingStack' = t.processingStack
         /\ last' = [NoOp EXCEPT
                       !.op = "evaluate", !.formula = formula, !.value = r.value,
                       !.hit = (t.cacheHits = cacheHits + 1 /\ t.cacheMisses = cacheMisses),
                       !.removed = t.removed, !.stored = t.stored]
  /\ UNCHANGED <<hookVars, harnessVars, host, converted>>

\* the caller takes formulaParser.getCellsUsed() after an evaluate
GetCellsUsed ==
  /\ last.op = "evaluate"
  /\ heap' = Collect([heap EXCEPT
                        !.returned = getCellsUsedSet(heap),
                        !.from = IF last.hit THEN last.formula.s ELSE ""])
  /\ last' = [NoOp EXCEPT !.op = "getCellsUsed", !.formula = last.formula,
                          !.hit = last.hit]
  /\ UNCHANGED <<evaluationCache, parserVars, hookVars, harnessVars, host, converted>>

\* the caller changes the set it was handed: content is what the set holds
\* afterwards
ChangeReturned(op, content) ==
  /\ heap.returned # NoRef
  /\ heap.sets[heap.returned] # content
  /\ heap' = [heap EXCEPT !.sets[heap.returned] = content]
  /\ evaluationCache' = CacheView(evaluationCache, heap')
  /\ cellsUsed' = heap'.sets[heap'.cellsUsed]
  /\ last' = [NoOp EXCEPT !.op = op]
  /\ UNCHANGED <<cacheHits, cacheMisses, circularReferences, processingStack,
                 hookVars, harnessVars, host, converted>>

\* returned.add(cell)
AddToReturned(c) == ChangeReturned("add", heap.sets[heap.returned] \cup {c})

\* returned.clear()
ClearReturned == ChangeReturned("clear", {})

SetsNext ==
  \/ \E formula \in SetsInputs : EvaluateSets(formula)
  \/ GetCellsUsed
  \/ \E c \in {"A1", "C1"} : AddToReturned(c)
  \/ ClearReturned

SetsSpec == SetsInit /\ [][SetsNext]_vars

(***************************************************************************)
(* The parser over a store in which a cell holds a text that is itself a   *)
(* cell id, and the cell it names holds an IF formula: the condition of    *)
(* the IF is passed through replaceCellReferences a second time.           *)
(***************************************************************************)
NamingContents(c) ==
  CASE c = "A1" -> {Str("B1"), Str("1"), Str("10")}
    [] c = "B1" -> {Str("=IF(A1>5,\"big\",\"small\")"), Blank}
    [] c = "C1" -> {Str("1"), Blank}
    [] OTHER -> {Blank}

NamingInputs == {Str(f) : f \in {"=IF(A1>5,\"big\",\"small\")", "=B1", "=C1"}}

NamingInit ==
  /\ evaluationCache = <<>>
  /\ cellsUsed = NewParserFields.cellsUsed
  /\ cacheHits = NewParserFields.cacheHits
  /\ cacheMisses = NewParserFields.cacheMisses
  /\ circularReferences = NewParserFields.circularReferences
  /\ processingStack = NewParserFields.processingStack
  /\ sheet \in {sh \in [Cells -> UNION {NamingContents(c) : c \in Cells}] :
                  \A c \in Cells : sh[c] \in NamingContents(c)}
  /\ dirty = {}
  /\ evaluated = [f \in Formulas |-> Unset]
  /\ last = NoOp
  /\ writes = 0
  /\ host = AmpleStack
  /\ heap = NoSets
  /\ converted = NoConversion
  /\ cells = [c \in Cells |-> NoCell]
  /\ queuedCells = cells
  /\ dependencies = <<>>
  /\ queuedDependencies = dependencies
  /\ pending = FALSE
  /\ updates = 0

NamingNext ==
  \/ \E c \in Cells : \E v \in NamingContents(c) : SetCell(c, v)
  \/ \E formula \in NamingInputs : Evaluate(formula)

NamingSpec == NamingInit /\ [][NamingNext]_vars

(***************************************************************************)
(* The parser over a store of plain values, as getCellValue of the         *)
(* SpreadsheetContext returns them: formulas with functions are evaluated. *)
(***************************************************************************)
\* the value each cell may hold
PlainContents(c) ==
  CASE c = "A1" -> {Str(s) : s \in {"", "1", "3", "10", "abc"}}
    [] c = "A2" -> {Str(s) : s \in {"", "2"}}
    [] c = "A3" -> {Str(s) : s \in {"", "3"}}
    [] c = "B1" -> {Str(s) : s \in {"", "0", "2"}}
    [] OTHER -> {Blank}

\* the formulas evaluated
FunctionInputs ==
  {Str(f) : f \in {"=SUM(A1:A3)", "=SUM(A1,A2,A3)", "=AVERAGE(A1:A3)",
                   "=AVERAGE(A1,A2,A3)", "=5/0", "=A1/B1",
                   "=IF(A1>5,\"big\",\"small\")", "=AND(A1,B1)", "=OR(A1,B1)",
                   "=NOT(A1)", "=A1+1"}}

FunctionInit ==
  /\ evaluationCache = <<>>
  /\ cellsUsed = NewParserFields.cellsUsed
  /\ cacheHits = NewParserFields.cacheHits
  /\ cacheMisses = NewParserFields.cacheMisses
  /\ circularReferences = NewParserFields.circularReferences
  /\ processingStack = NewParserFields.processingStack
  /\ sheet \in {sh \in [Cells -> UNION {PlainContents(c) : c \in Cells}] :
                  \A c \in Cells : sh[c] \in PlainContents(c)}
  /\ dirty = {}
  /\ evaluated = [f \in Formulas |-> Unset]
  /\ last = NoOp
  /\ writes = 0
  /\ host = AmpleStack
  /\ heap = NoSets
  /\ converted = NoConversion
  /\ cells = [c \in Cells |-> NoCell]
  /\ queuedCells = cells
  /\ dependencies = <<>>
  /\ queuedDependencies = dependencies
  /\ pending = FALSE
  /\ updates = 0

FunctionNext == \E formula \in FunctionInputs : Evaluate(formula)

FunctionSpec == FunctionInit /\ [][FunctionNext]_vars

(***************************************************************************)
(* The parser over a store whose getCellValue may raise, with chains and   *)
(* cycles of formula cells, on a call stack that the nested evaluate calls *)
(* of a chain may exhaust.                                                 *)
(***************************************************************************)
\* what getCellValue does for each cell: return a content or raise
HostileContents(c) ==
  CASE c = "A1" -> {Str("=B1"), Str("1"), Raised}
    [] c = "B1" -> {Str("=C1"), Str("=A1"), Raised}
    [] c = "C1" -> {Str("=A1"), Str("1"), Raised}
    [] OTHER -> {Blank}

\* the strings evaluated: formulas over the chain, a malformed formula, an
\* empty formula and a plain text
HostileInputs == {Str(f) : f \in {"=A1", "=A1+1", "=B1+C1", "=1+", "=", "1"}}

\* the call stack left when evaluate is called, and the try block that is
\* running when it is exhausted
Hosts ==
  {[depth |-> d, caught |-> c] : d \in 1..MaxEvalDepth, c \in {"callback", "evaluate"}}

SafetyInit ==
  /\ evaluationCache = <<>>
  /\ cellsUsed = NewParserFields.cellsUsed
  /\ cacheHits = NewParserFields.cacheHits
  /\ cacheMisses = NewParserFields.cacheMisses
  /\ circularReferences = NewParserFields.circularReferences
  /\ processingStack = NewParserFields.processingStack
  /\ sheet \in {sh \in [Cells -> UNION {HostileContents(c) : c \in Cells}] :
                  \A c \in Cells : sh[c] \in HostileContents(c)}
  /\ dirty = {}
  /\ evaluated = [f \in Formulas |-> Unset]
  /\ last = NoOp
  /\ writes = 0
  /\ host \in Hosts
  /\ heap = NoSets
  /\ converted = NoConversion
  /\ cells = [c \in Cells |-> NoCell]
  /\ queuedCells = cells
  /\ dependencies = <<>>
  /\ queuedDependencies = dependencies
  /\ pending = FALSE
  /\ updates = 0

SafetyNext == \E formula \in HostileInputs : Evaluate(formula)

SafetySpec == SafetyInit /\ [][SafetyNext]_vars

(***************************************************************************)
(* cellHelpers.  A string is the sequence of its character codes           *)
(* (charCodeAt): 'A'..'Z' are 65..90, '0'..'9' are 48..57.                 *)
(***************************************************************************)
\* the while loop of getColumnId
RECURSIVE ColumnIdLoop(_, _)
ColumnIdLoop(temp, id) ==
  IF temp > 0
  THEN ColumnIdLoop((temp - 1) \div 26, <<65 + ((temp - 1) % 26)>> \o id)
  ELSE id

getColumnId(index) == ColumnIdLoop(index + 1, <<>>)

\* the for loop of getColumnIndex from character i on
RECURSIVE ColumnIndexLoop(_, _, _)
ColumnIndexLoop(id, i, index) ==
  IF i <= Len(id) THEN ColumnIndexLoop(id, i + 1, index * 26 + (id[i] - 64))
  ELSE index

\* getColumnIndex without the final - 1
getColumnIndexOneBased(id) == ColumnIndexLoop(id, 1, 0)

getColumnIndex(id) == ColumnIndexLoop(id, 1, 0) - 1

\* the decimal numeral of a number, as a template literal writes it
RECURSIVE NumberToString(_)
NumberToString(n) ==
  IF n < 10 THEN <<48 + n>> ELSE NumberToString(n \div 10) \o <<48 + (n % 10)>>

\* parseInt of a string of decimal digits
RECURSIVE ParseInt(_)
ParseInt(digits) ==
  IF digits = <<>> THEN 0
  ELSE ParseInt(SubSeq(digits, 1, Len(digits) - 1)) * 10 + (digits[Len(digits)] - 48)

getCellId(colIndex, rowIndex) == getColumnId(colIndex) \o NumberToString(rowIndex + 1)

\* the capture of /^([A-Z]+)/: the longest prefix of capital letters
ColMatch(cellId) ==
  SubSeq(cellId, 1,
         Largest({n \in 0..Len(cellId) : \A i \in 1..n : cellId[i] \in 65..90}))

\* the capture of /(\d+)$/: the longest suffix of digits
RowMatch(cellId) ==
  SubSeq(cellId,
         Len(cellId) + 1
           - Largest({n \in 0..Len(cellId) :
                        \A i \in (Len(cellId) - n + 1)..Len(cellId) : cellId[i] \in 48..57}),
         Len(cellId))

\* both regular expressions match: otherwise getCellIndices throws
IndicesMatch(cellId) == ColMatch(cellId) # <<>> /\ RowMatch(cellId) # <<>>

getCellIndices(cellId) ==
  <<getColumnIndex(ColMatch(cellId)), ParseInt(RowMatch(cellId)) - 1>>

\* sequences over S of length 1..n
SeqsUpTo(S, n) == UNION {[1..k -> S] : k \in 1..n}

\* canonical cell ids: a label of capital letters, then a row number >= 1
\* without leading zeros
CanonicalIds ==
  {label \o <<first>> \o more :
     label \in SeqsUpTo({65, 66, 90}, MaxLabelLen),
     first \in {49, 57},
     more \in {<<>>} \cup SeqsUpTo({48, 49, 57}, MaxRowDigits - 1)}

\* the arguments: a pair of indices for getCellId, or a canonical id for
\* getCellIndices
ConversionInputs ==
  {[kind |-> "indices", trail |-> <<(<<col, row>>)>>, corners |-> <<>>] :
     col \in 0..MaxColIndex, row \in 0..MaxRowIndex}
  \cup {[kind |-> "id", trail |-> <<id>>, corners |-> <<>>] : id \in CanonicalIds}

HelperInit ==
  /\ evaluationCache = <<>>
  /\ cellsUsed = NewParserFields.cellsUsed
  /\ cacheHits = NewParserFields.cacheHits
  /\ cacheMisses = NewParserFields.cacheMisses
  /\ circularReferences = NewParserFields.circularReferences
  /\ processingStack = NewParserFields.processingStack
  /\ sheet = [c \in Cells |-> Blank]
  /\ dirty = {}
  /\ evaluated = [f \in Formulas |-> Unset]
  /\ last = NoOp
  /\ writes = 0
  /\ host = AmpleStack
  /\ heap = NoSets
  /\ converted \in ConversionInputs
  /\ cells = [c \in Cells |-> NoCell]
  /\ queuedCells = cells
  /\ dependencies = <<>>
  /\ queuedDependencies = dependencies
  /\ pending = FALSE
  /\ updates = 0

\* the value the next conversion takes is a pair of indices
IndicesNext ==
  \/ converted.kind = "indices" /\ Len(converted.trail) = 1
  \/ converted.kind = "id" /\ Len(converted.trail) = 2

\* getCellId(colIndex, rowIndex) on the last pair of indices
GetCellId ==
  /\ IndicesNext
  /\ converted' = [converted EXCEPT !.trail =
                     Append(@, getCellId(@[Len(@)][1], @[Len(@)][2]))]
  /\ last' = [NoOp EXCEPT !.op = "getCellId"]
  /\ UNCHANGED <<evaluationCache, parserVars, hookVars, harnessVars, host, heap>>

\* getCellIndices(cellId) on the last cell id
GetCellIndices ==
  /\ \/ converted.kind = "id" /\ Len(converted.trail) = 1
     \/ converted.kind = "indices" /\ Len(converted.trail) = 2
  /\ IndicesMatch(converted.trail[Len(converted.trail)])
  /\ converted' = [converted EXCEPT !.trail = Append(@, getCellIndices(@[Len(@)]))]
  /\ last' = [NoOp EXCEPT !.op = "getCellIndices"]
  /\ UNCHANGED <<evaluationCache, parserVars, hookVars, harnessVars, host, heap>>

HelperNext == GetCellId \/ GetCellIndices

HelperSpec == HelperInit /\ [][HelperNext]_vars

(***************************************************************************)
(* The range functions of FormulaParser on the text of a range, a string   *)
(* being the sequence of its character codes: ':' is 58, ' ' is 32.        *)
(***************************************************************************)
\* range.split(':')
RECURSIVE Split(_)
Split(range) ==
  LET colons == {i \in 1..Len(range) : range[i] = 58}
  IN  IF colons = {} THEN <<range>>
      ELSE LET i == CHOOSE c \in colons : \A d \in colons : c <= d
           IN  <<SubSeq(range, 1, i - 1)>> \o Split(SubSeq(range, i + 1, Len(range)))

\* String.prototype.trim
RECURSIVE Trim(_)
Trim(str) ==
  IF str # <<>> /\ str[1] = 32 THEN Trim(Tail(str))
  ELSE IF str # <<>> /\ str[Len(str)] = 32 THEN Trim(SubSeq(str, 1, Len(str) - 1))
  ELSE str

\* what follows the capital letters a text starts with
AfterLetters(str) == SubSeq(str, Len(ColMatch(str)) + 1, Len(str))

\* isValidCellReference on a text: /^[A-Z]+[0-9]+$/.test(cellRef.trim())
isValidCellReferenceText(cellRef) ==
  /\ cellRef # <<>>
  /\ ColMatch(Trim(cellRef)) # <<>>
  /\ AfterLetters(Trim(cellRef)) # <<>>
  /\ \A i \in 1..Len(AfterLetters(Trim(cellRef))) : AfterLetters(Trim(cellRef))[i] \in 48..57

\* the for loop of columnLetterToIndex from character i on; `threw` once a
\* character outside A..Z has been met
RECURSIVE LetterLoop(_, _, _)
LetterLoop(letter, i, index) ==
  IF i > Len(letter) THEN [threw |-> FALSE, index |-> index]
  ELSE IF letter[i] < 65 \/ letter[i] > 90 THEN [threw |-> TRUE, index |-> index]
  ELSE LetterLoop(letter, i + 1, index * 26 + (letter[i] - 64))

columnLetterToIndex(letter) ==
  IF letter = <<>> THEN 1
  ELSE TryCatch(LetterLoop(letter, 1, 0).threw, LetterLoop(letter, 1, 0).index, 1)

\* the while loop of indexToColumnLetter
RECURSIVE ColumnLetterLoop(_, _)
ColumnLetterLoop(tempIndex, result) ==
  IF tempIndex > 0
  THEN ColumnLetterLoop((tempIndex - 1) \div 26, <<65 + ((tempIndex - 1) % 26)>> \o result)
  ELSE result

indexToColumnLetter(index) ==
  IF index < 1 THEN <<65>> ELSE ColumnLetterLoop(index, <<>>)

\* the nested for loops of generateLimitedRange and generateCellRange: rows
\* outside, columns inside, at most `limit` cells
RECURSIVE RangeLoop(_, _, _, _, _, _, _)
RangeLoop(row, col, minCol, maxCol, maxRow, limit, rangeCells) ==
  IF row > maxRow \/ Len(rangeCells) >= limit THEN rangeCells
  ELSE IF col > maxCol
  THEN RangeLoop(row + 1, minCol, minCol, maxCol, maxRow, limit, rangeCells)
  ELSE RangeLoop(row, col + 1, minCol, maxCol, maxRow, limit,
                 Append(rangeCells, indexToColumnLetter(col) \o NumberToString(row)))

\* a generateCellRange that walks from the start corner to the end corner
generateCellRangeAsWritten(startCol, startRow, endCol, endRow) ==
  RangeLoop(startRow, startCol, startCol, endCol, endRow,
            (Max(startRow, endRow) + 1) * (Max(startCol, endCol) + 1), <<>>)

\* generateCellRange on column and row numbers
generateCellRangeText(startCol, startRow, endCol, endRow) ==
  RangeLoop(Min(startRow, endRow), Min(startCol, endCol), Min(startCol, endCol),
            Max(startCol, endCol), Max(startRow, endRow),
            (Max(startRow, endRow) + 1) * (Max(startCol, endCol) + 1), <<>>)

\* a generateLimitedRange that does not count
generateLimitedRangeUncapped(startCol, startRow, endCol, endRow, maxCells) ==
  generateCellRangeText(startCol, startRow, endCol, endRow)

generateLimitedRange(startCol, startRow, endCol, endRow, maxCells) ==
  RangeLoop(Min(startRow, endRow), Min(startCol, endCol), Min(startCol, endCol),
            Max(startCol, endCol), Max(startRow, endRow), maxCells, <<>>)

Abs(n) == IF n < 0 THEN 0 - n ELSE n

\* parseCellRange once both ends are valid references: the columns, the
\* rows, the size check
RangeOfCorners(startCol, startRow, endCol, endRow) ==
  IF startRow <= 0 \/ endRow <= 0 THEN <<>>
  ELSE IF (Abs(endRow - startRow) + 1) * (Abs(endCol - startCol) + 1) > MaxCells
  THEN generateLimitedRange(startCol, startRow, endCol, endRow, MaxCells)
  ELSE generateCellRangeText(startCol, startRow, endCol, endRow)

RangeOfParts(startCell, endCell) ==
  IF ~isValidCellReferenceText(startCell) \/ ~isValidCellReferenceText(endCell) THEN <<>>
  ELSE RangeOfCorners(columnLetterToIndex(ColMatch(startCell)),
                      ParseInt(AfterLetters(startCell)),
                      columnLetterToIndex(ColMatch(endCell)),
                      ParseInt(AfterLetters(endCell)))

\* parseCellRange on the text of a range
parseCellRangeText(range) ==
  IF range = <<>> THEN <<>>
  ELSE IF Len(Split(range)) # 2
  THEN (IF isValidCellReferenceText(range) THEN <<range>> ELSE <<>>)
  ELSE RangeOfParts(Trim(Split(range)[1]), Trim(Split(range)[2]))

\* getCellRange of cellHelpers, on zero-based indices
RECURSIVE CellRangeColumns(_, _, _)
CellRangeColumns(row, col, maxCol) ==
  IF col > maxCol THEN <<>>
  ELSE <<getCellId(col, row)>> \o CellRangeColumns(row, col + 1, maxCol)

RECURSIVE CellRangeLoop(_, _, _, _, _)
CellRangeLoop(row, col, minCol, maxCol, maxRow) ==
  IF row > maxRow THEN <<>>
  ELSE CellRangeColumns(row, col, maxCol)
         \o CellRangeLoop(row + 1, minCol, minCol, maxCol, maxRow)

getCellRange(startCol, startRow, endCol, endRow) ==
  CellRangeLoop(Min(startRow, endRow), Min(startCol, endCol), Min(startCol, endCol),
                Max(startCol, endCol), Max(startRow, endRow))

\* the corners of the ranges parsed: columns A.., one two-letter column, rows 1..
RangeCorners == ((1..MaxRangeCol) \cup {27}) \X (1..MaxRangeRow)

\* the text of a cell reference and of a range
RefText(corner) == indexToColumnLetter(corner[1]) \o NumberToString(corner[2])

RangeText(start, end) == RefText(start) \o <<58>> \o RefText(end)

\* texts that are not two references around one ':': 5, abc, A1, " A1 ",
\* A1:, A1:B2:C3, A0:A2, a1:B2, the empty string
OtherTexts ==
  {<<53>>, <<97, 98, 99>>, <<65, 49>>, <<32, 65, 49, 32>>, <<65, 49, 58>>,
   <<65, 49, 58, 66, 50, 58, 67, 51>>, <<65, 48, 58, 65, 50>>,
   <<97, 49, 58, 66, 50>>, <<>>}

\* column labels, well-formed or not: over A, Z, a, 1 and the space
Labels == SeqsUpTo({65, 90, 97, 49, 32}, MaxLetters)

RangeInputs ==
  {[kind |-> "range", trail |-> <<RangeText(x, y)>>, corners |-> <<x, y>>] :
     x \in RangeCorners, y \in RangeCorners}
  \cup {[kind |-> "range", trail |-> <<t>>, corners |-> <<>>] : t \in OtherTexts}
  \cup {[kind |-> "label", trail |-> <<l>>, corners |-> <<>>] : l \in Labels}

RangeInit ==
  /\ evaluationCache = <<>>
  /\ cellsUsed = NewParserFields.cellsUsed
  /\ cacheHits = NewParserFields.cacheHits
  /\ cacheMisses = NewParserFields.cacheMisses
  /\ circularReferences = NewParserFields.circularReferences
  /\ processingStack = NewParserFields.processingStack
  /\ sheet = [c \in Cells |-> Blank]
  /\ dirty = {}
  /\ evaluated = [f \in Formulas |-> Unset]
  /\ last = NoOp
  /\ writes = 0
  /\ host = AmpleStack
  /\ heap = NoSets
  /\ converted \in RangeInputs
  /\ cells = [c \in Cells |-> NoCell]
  /\ queuedCells = cells
  /\ dependencies = <<>>
  /\ queuedDependencies = dependencies
  /\ pending = FALSE
  /\ updates = 0

\* formulaParser.parseCellRange(range)
ParseCellRange ==
  /\ converted.kind = "range" /\ Len(converted.trail) = 1
  /\ converted' = [converted EXCEPT !.trail = Append(@, parseCellRangeText(@[1]))]
  /\ last' = [NoOp EXCEPT !.op = "parseCellRange"]
  /\ UNCHANGED <<evaluationCache, parserVars, hookVars, harnessVars, host, heap>>

\* formulaParser.columnLetterToIndex(letter)
ColumnLetterToIndex ==
  /\ converted.kind = "label" /\ Len(converted.trail) = 1
  /\ converted' = [converted EXCEPT !.trail = Append(@, <<columnLetterToIndex(@[1])>>)]
  /\ last' = [NoOp EXCEPT !.op = "columnLetterToIndex"]
  /\ UNCHANGED <<evaluationCache, parserVars, hookVars, harnessVars, host, heap>>

\* getColumnIndex(id) of cellHelpers
GetColumnIndex ==
  /\ converted.kind = "label" /\ Len(converted.trail) = 1
  /\ converted' = [converted EXCEPT !.trail = Append(@, <<getColumnIndex(@[1])>>)]
  /\ last' = [NoOp EXCEPT !.op = "getColumnIndex"]
  /\ UNCHANGED <<evaluationCache, parserVars, hookVars, harnessVars, host, heap>>

RangeNext == ParseCellRange \/ ColumnLetterToIndex \/ GetColumnIndex

RangeSpec == RangeInit /\ [][RangeNext]_vars

(***************************************************************************)
(* The application: updateCellValue calls and renders.                     *)
(***************************************************************************)
\* what a user writes to each cell
UserInputs(c) ==
  CASE c = "A1" -> {Str(s) : s \in {"1", "2", "=B1", "=A1+1"}}
    [] c = "B1" -> {Str(s) : s \in {"=A1", "=A1+1"}}
    [] c = "C1" -> {Str(s) : s \in {"=B1*2"}}
    [] OTHER -> {}

\* the application after mount: an empty sheet, no dependencies, a parser
Init ==
  /\ evaluationCache = <<>>
  /\ cellsUsed = NewParserFields.cellsUsed
  /\ cacheHits = NewParserFields.cacheHits
  /\ cacheMisses = NewParserFields.cacheMisses
  /\ circularReferences = NewParserFields.circularReferences
  /\ processingStack = NewParserFields.processingStack
  /\ cells = [c \in Cells |-> NoCell]
  /\ queuedCells = cells
  /\ dependencies = <<>>
  /\ queuedDependencies = dependencies
  /\ pending = FALSE
  /\ updates = 0
  /\ sheet = [c \in Cells |-> Blank]
  /\ dirty = {}
  /\ evaluated = [f \in Formulas |-> Unset]
  /\ last = NoOp
  /\ writes = 0
  /\ host = AmpleStack
  /\ heap = NoSets
  /\ converted = NoConversion

\* the state once updateCellValue(cellId, value) has returned with world w
Returned(w, cellId, value) ==
  /\ evaluationCache' = w.this.cache
  /\ cellsUsed' = w.this.cellsUsed
  /\ cacheHits' = w.this.cacheHits
  /\ cacheMisses' = w.this.cacheMisses
  /\ circularReferences' = w.this.circularReferences
  /\ processingStack' = w.this.processingStack
  /\ queuedCells' = w.queued
  /\ queuedDependencies' = IF w.setDeps THEN w.newDependencies ELSE queuedDependencies
  \* Set.add on a Set the new object shares with the current one
  /\ dependencies' = IF w.setDeps
                     THEN [d \in DOMAIN dependencies |-> w.newDependencies[d]]
                     ELSE dependencies
  /\ last' = [NoOp EXCEPT
                !.op = "update", !.cell = cellId, !.formula = value,
                !.value = w.queued[cellId].value,
                !.changed = (w.queued[cellId].value # queuedCells[cellId].value),
                !.clean = ~pending,
                !.stored = w.this.stored,
                !.reentered = w.reentered, !.overflowed = w.overflowed,
                !.log = w.log, !.failures = w.failures,
                !.before = queuedCells[cellId]]

\* an event handler calls updateCellValue(cellId, value)
UpdateCellValue(cellId, value) ==
  /\ updates < MaxUpdates
  /\ Returned(updateCellValue([this |-> This, queued |-> queuedCells,
                               reentered |-> FALSE, overflowed |-> FALSE,
                               log |-> <<>>, failures |-> {},
                               setDeps |-> FALSE, newDependencies |-> <<>>],
                              [cells |-> cells, dependencies |-> dependencies],
                              cellId, value),
              cellId, value)
  /\ pending' = TRUE
  /\ updates' = updates + 1
  /\ UNCHANGED <<cells, harnessVars, hostVars>>

\* a cache that each parser makes for itself when it is constructed
InstanceCache(cache) == <<>>

\* const evaluationCache = new Map() belongs to the module: the constructor
\* of a FormulaParser leaves it as it is
ModuleCache(cache) == cache

\* React renders: the queued state becomes the state the handlers read, and
\* the effect on [getCellValue] constructs a new FormulaParser
Render ==
  /\ pending
  /\ cells' = queuedCells
  /\ dependencies' = queuedDependencies
  /\ pending' = FALSE
  /\ cellsUsed' = NewParserFields.cellsUsed
  /\ cacheHits' = NewParserFields.cacheHits
  /\ cacheMisses' = NewParserFields.cacheMisses
  /\ circularReferences' = NewParserFields.circularReferences
  /\ processingStack' = NewParserFields.processingStack
  /\ evaluationCache' = ModuleCache(evaluationCache)
  /\ last' = [NoOp EXCEPT !.op = "render"]
  /\ UNCHANGED <<queuedCells, queuedDependencies, updates, harnessVars, hostVars>>

Next ==
  \/ \E c \in Cells : \E v \in UserInputs(c) : UpdateCellValue(c, v)
  \/ Render

Spec == Init /\ [][Next]_vars

\* the application with a caller of the one clear operation the code has,
\* formulaParser.clearCache()
ResetNext ==
  \/ \E c \in Cells : \E v \in UserInputs(c) : UpdateCellValue(c, v)
  \/ Render
  \/ ClearCache

ResetSpec == Init /\ [][ResetNext]_vars

\* undo(): dispatch({ type: UNDO }), here right after an updateCellValue call
\* that dispatched UPDATE_CELL; the reducer returns the state it was given
Undo ==
  /\ last.op = "update"
  /\ ~IsFormulaValue(last.formula)
  /\ queuedCells' = spreadsheetReducer(queuedCells, [type |-> "UNDO"])
  /\ last' = [NoOp EXCEPT !.op = "undo", !.cell = last.cell, !.before = last.before]
  /\ UNCHANGED <<evaluationCache, parserVars, cells, dependencies, queuedDependencies,
                 pending, updates, harnessVars, hostVars>>

\* the application with a caller of undo
UndoNext ==
  \/ \E c \in Cells : \E v \in UserInputs(c) : UpdateCellValue(c, v)
  \/ Render
  \/ Undo

UndoSpec == Init /\ [][UndoNext]_vars

(***************************************************************************)
(* Properties of the application.                                          *)
(***************************************************************************)
\* the cells that have cellId among their dependents in a dependency object
EdgesInto(deps, cellId) == {a \in DOMAIN deps : InSeq(cellId, deps[a])}

\* C1: when updateCellValue changes the value of a cell, every cache entry
\* whose recorded dependency set contains that cell is removed before any
\* later evaluate call: once the handler has returned, an entry that names
\* the cell can only be one that the handler itself computed.
C1_UpdateInvalidatesCache ==
  (last.op = "update" /\ last.changed) =>
     \A i \in 1..Len(evaluationCache) :
        last.cell \in evaluationCache[i].dependencies =>
           evaluationCache[i].key \in last.stored

\* C2: with B1 = "=A1+1" and C1 = "=B1*2" both evaluated and their edges
\* recorded, writing the plain number v to A1 ends the recalculation pass
\* with B1 holding v + 1 and C1 holding 2 * (v + 1).
C2_ChainRecalculated ==
  (/\ last.op = "update" /\ last.cell = "A1" /\ last.clean
   /\ last.formula.s \in NumeralStrings
   /\ cells["B1"].formula = "=A1+1" /\ cells["C1"].formula = "=B1*2"
   /\ "A1" \in DOMAIN dependencies /\ InSeq("B1", dependencies["A1"])
   /\ "B1" \in DOMAIN dependencies /\ InSeq("C1", dependencies["B1"]))
  => /\ queuedCells["B1"].value = Num(Numeral(last.formula.s) + 1)
     /\ queuedCells["C1"].value = Num(2 * (Numeral(last.formula.s) + 1))

\* C3: after a formula has been written to a cell, the recorded dependency
\* edges into that cell are exactly the cells read during that evaluation.
C3_EdgesAreCellsRead ==
  (last.op = "update" /\ IsFormulaValue(last.formula)) =>
     EdgesInto(queuedDependencies, last.cell) = getCellsUsed(This)

\* C4: a recalculation pass never re-enters a cell that is already being
\* recalculated, and it terminates on its own rather than by exhausting
\* the call stack.
C4_PassHasNoReentry ==
  last.op = "update" => (~last.reentered /\ ~last.overflowed)

(***************************************************************************)
(* Properties of the parser driven directly (ParserSpec).                  *)
(***************************************************************************)
\* the call evaluate(formula) would make in the current state
Call(formula) == evaluate(This, sheet, formula)

IsHit(r) == r.this.cacheHits = cacheHits + 1 /\ r.this.cacheMisses = cacheMisses

IsMiss(r) == r.this.cacheMisses > cacheMisses

\* the non-empty duplicate-free sequences of cell ids
CellSeqs ==
  {q \in UNION {[1..n -> Cells] : n \in 1..Cardinality(Cells)} :
     \A i, j \in 1..Len(q) : i # j => q[i] # q[j]}

CircularMarkers == {CircularMarker(cs) : cs \in CellSeqs}

CircularMarkersNaming(S) ==
  {CircularMarker(cs) : cs \in {q \in CellSeqs : \E i \in 1..Len(q) : q[i] \in S}}

\* the value of a formula computed from the current cells alone
FreshValue(f) ==
  evaluate([This EXCEPT !.cache = <<>>, !.cellsUsed = {}], sheet, Str(f)).value

\* C5: whenever A1 holds "=B1" and B1 holds "=A1" (getCellValue returns the
\* formula text), evaluating A1's formula returns a value that is a
\* #CIRCULAR! marker naming A1 or B1.
C5_CircularPairReported ==
  (sheet["A1"] = Str("=B1") /\ sheet["B1"] = Str("=A1"))
  => Call(Str("=B1")).value \in CircularMarkersNaming({"A1", "B1"})

\* C6: whenever the reference substitution of an evaluate call, at any
\* nesting depth, met a cell id that was in the processingStack, the value
\* the top-level call returned is a #CIRCULAR! marker.
C6_CircularAlwaysSurfaces ==
  (last.op = "evaluate" /\ last.circularSeen) => last.value \in CircularMarkers

\* C7: after evaluate(f) returned on a cache miss, getCellsUsed() contains
\* every cell id that occurs as a reference token in f.
C7_CellsUsedCoversReferences ==
  (last.op = "evaluate" /\ IsFormulaValue(last.formula) /\ ~last.hit)
  => RefsOf(last.formula.s) \subseteq getCellsUsed(This)

C9_RecomputesFromCurrentCells ==
  (last.op = "invalidate" /\ dirty = {})
  => \A f \in last.removed :
       LET r == Call(Str(f))
       IN  IsMiss(r) /\ r.value = FreshValue(f)

\* C10: invalidateCellDependencies(ids) with an array ids leaves exactly the
\* entries whose dependency set is disjoint from ids, each as it was, once.
C10_InvalidateRemovesExactly ==
  \A cellIds \in IdLists :
    cellIds.isArray
    => LET post == invalidateCellDependencies(evaluationCache, cellIds)
           ids  == {cellIds.ids[i] : i \in 1..Len(cellIds.ids)}
           kept == {evaluationCache[i] : i \in {j \in 1..Len(evaluationCache) :
                                                  evaluationCache[j].dependencies \cap ids = {}}}
       IN  /\ {post[i] : i \in 1..Len(post)} = kept
           /\ Len(post) = Cardinality(kept)

C10_Witness ==
  /\ last.op = "invalidate"
  /\ last.isArray
  /\ last.removed # {}
  /\ evaluationCache # <<>>
  /\ \A i \in 1..Len(evaluationCache) :
       evaluationCache[i].dependencies \cap {last.ids[j] : j \in 1..Len(last.ids)} = {}

\* C11: after every evaluate call has returned, nested evaluations included,
\* the evaluation cache holds at most CacheCapacity entries.
C11_CacheBounded == Len(evaluationCache) <= CacheCapacity

C11_Witness ==
  /\ last.op = "evaluate"
  /\ last.removed # {}
  /\ Len(evaluationCache) = CacheCapacity

\* C27: evaluate returns '' for null or undefined, a non-string input
\* itself and a string that does not start with '=' unchanged, and in all
\* these cases leaves the evaluation cache, the hit and miss counters and the
\* dependency set of the last evaluation as they were.
C27_LiteralsLeaveParserAlone ==
  [][(last'.op = "evaluate" /\ ~IsFormulaValue(last'.formula))
     => /\ last'.value = (IF last'.formula = Null THEN Blank ELSE last'.formula)
        /\ evaluationCache' = evaluationCache
        /\ cacheHits' = cacheHits
        /\ cacheMisses' = cacheMisses
        /\ cellsUsed' = cellsUsed]_vars

\* null was evaluated on a parser that holds a cache entry and a dependency set
C27_Witness ==
  /\ last.op = "evaluate"
  /\ last.formula = Null
  /\ last.value = Blank
  /\ evaluationCache # <<>>
  /\ cellsUsed # {}

(***************************************************************************)
(* Properties of the spreadsheet functions (FunctionSpec).                 *)
(***************************************************************************)
Holds(c, str) == sheet[c] = Str(str)

Evaluated(f) == last.op = "evaluate" /\ last.formula = Str(f)

\* C12: evaluate("=SUM(A1:A3)") returns 6 when A1 = 1, A2 = 2, A3 = 3 and
\* returns 4 when A2 is blank instead.
C12_SumOfRange ==
  (Evaluated("=SUM(A1:A3)") /\ Holds("A1", "1") /\ Holds("A3", "3"))
  => /\ Holds("A2", "2") => last.value = Num(6)
     /\ Holds("A2", "") => last.value = Num(4)

\* C13: over three referenced cells of which exactly one is blank, given as
\* a range or as three single references, AVERAGE returns the sum of the
\* two non-blank values divided by 2.
C13_AverageSkipsBlank ==
  \A blank \in {"A1", "A2", "A3"} :
    ( /\ Evaluated("=AVERAGE(A1:A3)") \/ Evaluated("=AVERAGE(A1,A2,A3)")
      /\ \A c \in {"A1", "A2", "A3"} : (sheet[c] = Blank) <=> (c = blank) )
    => LET others == {"A1", "A2", "A3"} \ {blank}
           a == CHOOSE c \in others : TRUE
           b == CHOOSE c \in others : c # a
       IN  last.value = Quotient(Numeral(sheet[a].s) + Numeral(sheet[b].s), 2)

\* C14: a formula whose arithmetic divides by zero ("=5/0", or "=A1/B1" with
\* B1 equal to 0 or blank) evaluates to the marker #DIV/0!.
C14_DivisionByZeroMarker ==
  ( \/ Evaluated("=5/0")
    \/ Evaluated("=A1/B1") /\ (Holds("B1", "0") \/ Holds("B1", "")) )
  => last.value = Str("#DIV/0!")

\* C15: evaluate returns a value and never throws: whatever string it is given,
\* whether getCellValue returns or raises, however deep or cyclic the chain of
\* formula cells is, no exception leaves a top-level evaluate call, and the
\* processingStack is left empty
C15_EvaluateNeverThrows ==
  last.op = "evaluate" =>
    /\ last.value \notin {Raised, MathThrows}
    /\ processingStack = {}

\* an evaluate over a chain whose second cell raises has returned, and an
\* exception was caught on the way
C15_Witness ==
  /\ last.op = "evaluate"
  /\ last.formula = Str("=A1+1")
  /\ sheet["A1"] = Str("=B1")
  /\ sheet["B1"] = Raised
  /\ last.caught > 0

C17_LogicalDependenciesComplete ==
  (last.op = "evaluate" /\ last.formula \in {Str("=AND(A1,B1)"), Str("=OR(A1,B1)")})
  => RefsOf(last.formula.s) \subseteq getCellsUsed(This)

\* C25: the boolean coercion of AND, OR and NOT takes non-numeric text such
\* as "abc" as false: with A1 = "abc", AND(A1,B1) is false, NOT(A1) is true,
\* and OR(A1,B1) is false when B1 is blank or 0.
C25_TextCoercesToFalse ==
  Holds("A1", "abc") =>
    /\ Evaluated("=AND(A1,B1)") => last.value = Bool(FALSE)
    /\ Evaluated("=NOT(A1)") => last.value = Bool(TRUE)
    /\ (Evaluated("=OR(A1,B1)") /\ (Holds("B1", "") \/ Holds("B1", "0")))
         => last.value = Bool(FALSE)

\* C26: "=A1+1" with the non-numeric text "abc" in A1 returns #VALUE!.
C26_NonNumericOperandMarker ==
  (Evaluated("=A1+1") /\ Holds("A1", "abc")) => last.value = Str("#VALUE!")

(***************************************************************************)
(* Properties of the propagation pass (Spec).                              *)
(***************************************************************************)
\* C18: in a propagation pass, when the re-evaluation of a dependent fails,
\* the next action dispatched stores '#ERROR!' for that dependent, and every
\* dependent of the same changed cell that forEach had still to visit is
\* re-evaluated and stored afterwards.
C18_FailureKeepsSiblings ==
  last.op = "update" =>
    \A f \in last.failures :
      /\ Len(last.log) > f.at
      /\ last.log[f.at + 1] = [cellId |-> f.cell, value |-> ErrorMarker]
      /\ \A d \in f.rest :
           \E i \in (f.at + 2)..Len(last.log) : last.log[i].cellId = d

\* a pass in which the re-evaluation of a dependent failed while a sibling
\* was still to be visited
C18_Witness ==
  /\ last.op = "update"
  /\ \E f \in last.failures : f.rest # {}

\* the edges of a dependency object
Edges(deps) ==
  {e \in Cells \X Cells : e[1] \in DOMAIN deps /\ InSeq(e[2], deps[e[1]])}

\* C19: after the explicit clear operation both the evaluation cache and the
\* dependency edge set are empty.
C19_ClearEmptiesBoth ==
  last.op = "clear" =>
    /\ evaluationCache = <<>>
    /\ Edges(dependencies) = {}
    /\ Edges(queuedDependencies) = {}

(***************************************************************************)
(* Properties of cellHelpers (HelperSpec).                                 *)
(***************************************************************************)
\* C20: for all indices col >= 0 and row >= 0 within the bounds,
\* getCellIndices(getCellId(col, row)) = [col, row]; and for every canonical
\* cell id, getCellId applied to getCellIndices(id) is id.
C20_CellIdRoundTrip ==
  Len(converted.trail) = 3 => converted.trail[3] = converted.trail[1]

\* column 26, row 9 went to the id AA10 and came back as indices
C20_Witness ==
  /\ converted.kind = "indices"
  /\ Len(converted.trail) = 3
  /\ converted.trail[1] = <<26, 9>>
  /\ converted.trail[2] = <<65, 65, 49, 48>>

(***************************************************************************)
(* Properties of the range functions (RangeSpec).                          *)
(***************************************************************************)
\* the label of column c (1 = A), for c up to 702
Label(c) == IF c <= 26 THEN <<64 + c>> ELSE <<64 + ((c - 1) \div 26), 65 + ((c - 1) % 26)>>

\* the first `n` cells of the rectangle with corners x and y, row by row
RowMajor(x, y, n) ==
  LET minCol == Min(x[1], y[1])
      minRow == Min(x[2], y[2])
      width  == Max(x[1], y[1]) - minCol + 1
  IN  [i \in 1..n |-> Label(minCol + ((i - 1) % width))
                        \o NumberToString(minRow + ((i - 1) \div width))]

RectangleSize(x, y) == (Abs(x[1] - y[1]) + 1) * (Abs(x[2] - y[2]) + 1)

\* parseCellRange has returned for a range written with two corners
RangeParsed ==
  converted.kind = "range" /\ converted.corners # <<>> /\ Len(converted.trail) = 2

\* C21: parseCellRange on a range whose rectangle holds more cells than the
\* cap returns exactly the first cap-many cell ids of the row-major
\* enumeration of the rectangle; on a rectangle of at most that many cells it
\* returns every cell of the rectangle once in that order.
C21_RangeCappedRowMajor ==
  RangeParsed =>
    converted.trail[2] =
      RowMajor(converted.corners[1], converted.corners[2],
               Min(MaxCells, RectangleSize(converted.corners[1], converted.corners[2])))

\* the range C4:A1 of twelve cells was cut to the cap
C21_Witness ==
  /\ RangeParsed
  /\ converted.corners = <<(<<3, 4>>), (<<1, 1>>)>>
  /\ Len(converted.trail[2]) = MaxCells

\* the expansions of the rectangle with corners x and y agree
CornersCommute(result, x, y) ==
  /\ result = parseCellRangeText(RangeText(y, x))
  /\ result = parseCellRangeText(RangeText(<<Min(x[1], y[1]), Min(x[2], y[2])>>,
                                           <<Max(x[1], y[1]), Max(x[2], y[2])>>))
  /\ getCellRange(x[1] - 1, x[2] - 1, y[1] - 1, y[2] - 1)
       = getCellRange(y[1] - 1, y[2] - 1, x[1] - 1, x[2] - 1)

\* C22: parseCellRange("X:Y") equals parseCellRange("Y:X"), and both equal
\* the expansion of the range written with the top-left and the bottom-right
\* corner of the rectangle; getCellRange of cellHelpers does not depend on
\* the order of the corners either.
C22_CornersCommute ==
  RangeParsed =>
    CornersCommute(converted.trail[2], converted.corners[1], converted.corners[2])

\* B2:A1, written from the bottom-right corner, gave A1, B1, A2, B2
C22_Witness ==
  /\ RangeParsed
  /\ converted.corners = <<(<<2, 2>>), (<<1, 1>>)>>
  /\ converted.trail[2] = <<(<<65, 49>>), (<<66, 49>>), (<<65, 50>>), (<<66, 50>>)>>

\* C23: a token without ':', which is not two cell references, is returned
\* verbatim as a one-element sequence; the empty sequence is kept for
\* malformed input.
C23_TokenReturnedVerbatim ==
  (/\ converted.kind = "range" /\ Len(converted.trail) = 2
   /\ converted.trail[1] # <<>>
   /\ Len(Split(converted.trail[1])) = 1)
  => converted.trail[2] = <<converted.trail[1]>>

\* the outcome of a conversion that failed
InvalidReference == <<>>

\* C24: converting a column label that contains a character outside A to Z
\* fails with InvalidReference; it never returns a column index.
C24_InvalidLabelFails ==
  (/\ converted.kind = "label" /\ Len(converted.trail) = 2
   /\ \E i \in 1..Len(converted.trail[1]) : converted.trail[1][i] \notin 65..90)
  => converted.trail[2] = InvalidReference

(***************************************************************************)
(* Properties of undo (UndoSpec).                                          *)
(***************************************************************************)
\* C28: after a cell's value was changed by UPDATE_CELL, dispatching UNDO
\* restores the value and the formula the cell had before the change.
C28_UndoRestoresCell ==
  last.op = "undo" => queuedCells[last.cell] = last.before

\* C29: when the entries an evaluate call stores take the cache past its
\* capacity, each store past the capacity removes exactly the entry inserted
\* earliest: the cache ends at its capacity, the entries removed are the
\* oldest ones, the surviving older entries keep their order, and the newest
\* entries are the ones just stored.
C29_EvictsOldestKeepsNew ==
  [][LET old == evaluationCache
         excess == Len(old) + Cardinality(last'.stored) - CacheCapacity
         kept == Max(0, Len(old) - excess)
     IN  (/\ last'.op = "evaluate"
          /\ last'.stored # {}
          /\ excess > 0
          /\ last'.stored \cap CacheKeys(old) = {})
         => /\ Len(evaluationCache') = CacheCapacity
            /\ last'.removed \cap CacheKeys(old)
                 = {old[i].key : i \in 1..Min(excess, Len(old))}
            /\ SubSeq(evaluationCache', 1, kept)
                 = SubSeq(old, Len(old) - kept + 1, Len(old))
            /\ \A i \in (kept + 1)..CacheCapacity :
                 evaluationCache'[i].key \in last'.stored]_vars

C29_Witness ==
  /\ last.op = "evaluate"
  /\ last.stored # {}
  /\ last.removed # {}
  /\ last.removed \cap CacheKeys(evaluationCache) = {}
  /\ evaluationCache[Len(evaluationCache)].key \in last.stored

(***************************************************************************)
(* Properties of the Set objects (SetsSpec).                               *)
(***************************************************************************)
\* C30: right after a cache hit for a formula, getCellsUsed() holds the cells
\* recorded when the formula's entry was stored; and whatever the caller adds
\* to or clears from the set it was handed, and whatever later evaluate calls
\* do, every cache entry keeps the dependency set it was stored with.
C30_HitExposesCopy ==
  /\ (last.op = "evaluate" /\ last.hit)
       => heap.sets[getCellsUsedSet(heap)] = heap.recorded[last.formula.s]
  /\ \A i \in 1..Len(evaluationCache) :
       evaluationCache[i].dependencies = heap.recorded[evaluationCache[i].key]

C30_Witness ==
  /\ last.op \in {"add", "clear"}
  /\ heap.from # ""
  /\ heap.dependencies[heap.from] # NoRef
  /\ heap.sets[heap.returned] # heap.recorded[heap.from]

(***************************************************************************)
(* Properties of the dependency set of an aggregate (FunctionSpec).        *)
(***************************************************************************)
\* C31: after "=SUM(A1:A3)" or "=AVERAGE(A1:A3)" was evaluated, getCellsUsed()
\* contains every cell of the expanded range, the interior cell A2 included.
C31_RangeDependenciesComplete ==
  (Evaluated("=SUM(A1:A3)") \/ Evaluated("=AVERAGE(A1:A3)"))
  => {"A1", "A2", "A3"} \subseteq getCellsUsed(This)

(***************************************************************************)
(* Properties of cycles and the cache (ParserSpec).                        *)
(***************************************************************************)
\* C32: no cache entry holds a #CIRCULAR! marker as its value, so that a
\* formula evaluated again after the cycle was broken is not served the
\* marker of the circular evaluation.
C32_NoCircularValueCached ==
  \A i \in 1..Len(evaluationCache) : evaluationCache[i].value \notin CircularMarkers

\* C33: between evaluate calls the processingStack and the circularReferences
\* of the parser are both empty, whatever the calls made so far met: a cycle,
\* a getCellValue that raised, an exhausted call stack.
C33_ResolvingSetsEmpty ==
  /\ processingStack = {}
  /\ circularReferences = <<>>

(***************************************************************************)
(* Properties of the cache across parser instances (Spec).                 *)
(***************************************************************************)
\* r is a cache hit on entry by a parser that had evaluated nothing
HitOn(r, entry) ==
  /\ r.this.cacheHits = 1
  /\ r.this.cacheMisses = 0
  /\ r.this.gcvCalls = 0
  /\ r.value = entry.value
  /\ r.this.cache = evaluationCache

\* C34: the cache belongs to the module and its key is the formula string
\* alone: when a render constructs a new parser, over a getCellValue that
\* reads the cells of that render, the new parser serves every entry stored
\* through the earlier parsers as a cache hit with the value stored.
C34_CacheSharedByInstances ==
  [][last'.op = "render"
     => \A i \in 1..Len(evaluationCache) :
          HitOn(evaluate(This', getCellValue(cells'), Str(evaluationCache[i].key)),
                evaluationCache[i])]_vars

\* a parser was constructed while the cache holds an entry whose value is
\* not the one its formula has over the cells the new parser reads
C34_Witness ==
  /\ last.op = "render"
  /\ \E i \in 1..Len(evaluationCache) :
       /\ evaluationCache[i].value \in {Num(n) : n \in 0..4}
       /\ evaluate([This EXCEPT !.cache = <<>>], getCellValue(cells),
                   Str(evaluationCache[i].key)).value
            \notin {evaluationCache[i].value, ErrorMarker}

(***************************************************************************)
(* Properties of entries without dependencies (ParserSpec).                *)
(***************************************************************************)
\* C35: a cache entry whose recorded dependency set is empty is still in the
\* cache, as it was, after every invalidateCellDependencies call; a step that
\* removes it is a clearCache call or an evaluate call that evicted it.
C35_UntrackedEntrySurvives ==
  [][\A i \in 1..Len(evaluationCache) :
       evaluationCache[i].dependencies = {}
       => \/ \E j \in 1..Len(evaluationCache') : evaluationCache'[j] = evaluationCache[i]
          \/ last'.op = "clear"
          \/ /\ last'.op = "evaluate"
             /\ evaluationCache[i].key \in last'.removed]_vars

\* an invalidation removed an entry and left one without dependencies
C35_Witness ==
  /\ last.op = "invalidate"
  /\ last.isArray
  /\ last.removed # {}
  /\ \E i \in 1..Len(evaluationCache) : evaluationCache[i].dependencies = {}

(***************************************************************************)
(* Properties of the propagation pass and of formula writes (Spec).        *)
(***************************************************************************)
\* C36: when updateCellValue has written a plain value to a cell, the cell
\* holds that value and no formula once the call, with the propagation pass
\* it started, has returned.
C36_PlainWriteStays ==
  (last.op = "update" /\ ~IsFormulaValue(last.formula))
  => /\ queuedCells[last.cell].formula = ""
     /\ queuedCells[last.cell].value = last.formula
\* C37: an updateCellValue call that writes a formula to a cell dispatches one
\* action, for that cell: the cell gets the formula, no dependent is
\* recalculated, and every other cell keeps the value and formula it had.
C37_FormulaWriteChangesOneCell ==
  [][(last'.op = "update" /\ IsFormulaValue(last'.formula))
     => /\ \A c \in Cells \ {last'.cell} : queuedCells'[c] = queuedCells[c]
        /\ queuedCells'[last'.cell].formula = last'.formula.s
        /\ Len(last'.log) = 1
        /\ last'.log[1].cellId = last'.cell]_vars

\* a formula write changed the value of a cell that the formula of another
\* cell reads and that has that cell among its recorded dependents
C37_Witness ==
  /\ last.op = "update"
  /\ IsFormulaValue(last.formula)
  /\ last.changed
  /\ \E c \in Cells \ {last.cell} :
       /\ queuedCells[c].formula # ""
       /\ last.cell \in RefsOf(queuedCells[c].formula)
       /\ last.cell \in DOMAIN dependencies
       /\ InSeq(c, dependencies[last.cell])
\* C38: a formula write to a cell loses no dependency edge recorded by an
\* earlier formula write to a different cell: every edge into another cell
\* in the dependency object last passed to setDependencies is an edge of the
\* object this write passes, also when no render has come between the writes.
C38_EdgesNeverLost ==
  [][(last'.op = "update" /\ IsFormulaValue(last'.formula))
     => \A a \in DOMAIN queuedDependencies :
          \A i \in 1..Len(queuedDependencies[a]) :
            queuedDependencies[a][i] # last'.cell
            => /\ a \in DOMAIN queuedDependencies'
               /\ InSeq(queuedDependencies[a][i], queuedDependencies'[a])]_vars

====
